---- MODULE Spec2Model ----
(***************************************************************************)
(* Model of the plugin-side boundary layer of DQCsim's Python API:         *)
(*   - dqcsim/common/handle.py : the Handle proxy (own / borrow / take /   *)
(*     release) over the native handle registry;                           *)
(*   - dqcsim/plugin/__init__.py : the callback dispatch core (_cb, the    *)
(*     _route_* entry points, the _pc/_log accessors).                     *)
(* The native engine is reached only through the raw.dqcs_* calls; the     *)
(* registry behind them is modelled from its documented contract.          *)
(***************************************************************************)
EXTENDS Integers, Sequences, FiniteSets, TLC

\* ------------------------------------------------------------------ bounds
MaxProxies == 1
MaxIds == 1
MaxDel == 2
MaxDefined == 1
MaxDepth == 2
MaxToken == 2
MaxHandlers == 2
MaxCmds == 2
MaxTargets == 2
MaxControls == 2

\* Python's None, as a value outside the range of handles and tokens.
None == -1

VARIABLES
    live,       \* native registry: the ids that refer to a live resource
    nextId,     \* native registry: the next id handed out (ids are never reused)
    removals,   \* per id: how many native deletes of it succeeded
    remover,    \* per id: who removed it ("none", "raw" caller, or a proxy)
    proxies,    \* per Handle proxy: its _handle field and bookkeeping
    hlast,      \* the last Handle operation and what it did
    defined,    \* plugin: the attribute names the plugin class defines
    arbIfaces,  \* plugin: the _arb_interfaces attribute (may be missing)
    stateHandle,\* plugin: the _state_handle field (the context token)
    stack,      \* plugin: the handlers that are executing, innermost last
    hadFailure, \* plugin: some callback whose handler ran has failed before
    plast,      \* plugin: the last dispatch or accessor step
    job,        \* plugin: the route callback (init, run, gate, ...) in progress
                \* or last completed, with the handler calls it made
    dlast,      \* data types: the last to_raw / from_raw / constructor call,
                \* its arguments, the native object it left and its result
    heap,       \* ArbData objects: the Python lists and dicts, by address
    names,      \* ArbData objects: the objects the names x and y are bound to
    alast,      \* ArbData objects: the last operation on x or y
    mlast,      \* Measurement: the object m and the last operation on it
    launch,     \* plugin launch: the instance's flags and the last run/start
    own         \* route callbacks: the handles of the last callback

hvars == <<live, nextId, removals, remover, proxies, hlast>>

pvars == <<defined, arbIfaces, stateHandle, stack, hadFailure, plast>>

rvars == <<job>>

dvars == <<dlast, heap, names, alast, mlast, launch, own>>

vars == <<hvars, pvars, rvars, dvars>>

Ids == 1..MaxIds
ProxyIds == 1..MaxProxies

\* ------------------------------------------------- native handle registry
\* raw.dqcs_handle_type: the type tag of a live id, INVALID for anything else.
dqcs_handle_type(i) == IF i \in live THEN "ARB_DATA" ELSE "INVALID"

\* raw.dqcs_handle_delete succeeds only for a live id, and only when entered
\* from the execution context that owns the boundary.
dqcs_handle_delete_ok(i, ctx) == ctx = "owner" /\ i \in live

\* ---------------------------------------------------------------- Handle
\* Handle.__bool__
HandleBoolLoose(h) == h # None /\ h >= 0

HandleBool(h) == h # None /\ h > 0

\* Handle.__int__: [exc, val]
HandleInt(h) ==
    IF h = None THEN [exc |-> "ValueError", val |-> None]
    ELSE [exc |-> "ok", val |-> h]

\* Handle.take: [exc, val, handle'] (handle' is the _handle field afterwards)
HandleTakeKeep(h) ==
    IF h = None THEN [exc |-> "ValueError", val |-> None, handle |-> h]
    ELSE [exc |-> "ok", val |-> h, handle |-> h]

HandleTake(h) ==
    IF h = None THEN [exc |-> "ValueError", val |-> None, handle |-> h]
    ELSE [exc |-> "ok", val |-> h, handle |-> None]

\* Handle.get_type: [exc, typ]
HandleGetType(h) ==
    IF h = None THEN [exc |-> "ValueError", typ |-> "INVALID"]
    ELSE [exc |-> "ok", typ |-> dqcs_handle_type(h)]

\* Handle.is_type: [exc, val]
HandleIsType(h, typ) ==
    LET t == HandleGetType(h)
    IN  [exc |-> t.exc, val |-> (t.exc = "ok" /\ t.typ = typ)]

\* Handle.__enter__
HandleEnter(h) == HandleInt(h)

\* Handle.__del__: what one run of the finalizer does, given whether the
\* native delete it may issue succeeds: [exc, ndel, removed].
HandleDelRaising(h, nativeOk) ==
    IF HandleBool(h)
    THEN [exc |-> IF nativeOk THEN "ok" ELSE "RuntimeError",
          ndel |-> 1, removed |-> nativeOk]
    ELSE [exc |-> "ok", ndel |-> 0, removed |-> FALSE]

HandleDelLeak(h, nativeOk) ==
    [exc |-> "ok", ndel |-> 0, removed |-> FALSE]

HandleDel(h, nativeOk) ==
    IF HandleBool(h)
    THEN [exc |-> "ok", ndel |-> 1, removed |-> nativeOk]
    ELSE [exc |-> "ok", ndel |-> 0, removed |-> FALSE]

NoProxy == [made |-> FALSE, handle |-> 0, dels |-> 0, ndel |-> 0,
            ret |-> None, retLive |-> FALSE]

NoEvent == [op |-> "none", p |-> 0, pre |-> 0, exc |-> "ok", val |-> 0,
            flag |-> FALSE, ndel |-> 0, failed |-> FALSE, ctx |-> "owner",
            liveBefore |-> {}]

HFixed ==
    /\ live = {}
    /\ nextId = 1
    /\ removals = [i \in Ids |-> 0]
    /\ remover = [i \in Ids |-> [by |-> "none", p |-> 0]]
    /\ proxies = [p \in ProxyIds |-> NoProxy]
    /\ hlast = NoEvent

Event(op, p, pre, exc, val, flag) ==
    [NoEvent EXCEPT !.op = op, !.p = p, !.pre = pre, !.exc = exc, !.val = val,
                    !.flag = flag, !.liveBefore = live]

\* xh = raw.dqcs_arb_new(): the native engine allocates a fresh id.
RawNew ==
    /\ UNCHANGED <<pvars, rvars, dvars>>
    /\ nextId <= MaxIds
    /\ live' = live \cup {nextId}
    /\ nextId' = nextId + 1
    /\ hlast' = Event("raw_new", 0, 0, "ok", nextId, FALSE)
    /\ UNCHANGED <<removals, remover, proxies>>

\* raw.dqcs_handle_delete(xh) by the caller, through the raw id.
RawDelete(i) ==
    /\ UNCHANGED <<pvars, rvars, dvars>>
    /\ i < nextId
    /\ IF dqcs_handle_delete_ok(i, "owner")
       THEN /\ live' = live \ {i}
            /\ removals' = [removals EXCEPT ![i] = @ + 1]
            /\ remover' = [remover EXCEPT ![i] = [by |-> "raw", p |-> 0]]
            /\ hlast' = Event("raw_delete", 0, i, "ok", i, FALSE)
       ELSE /\ hlast' = Event("raw_delete", 0, i, "RuntimeError", i, FALSE)
            /\ UNCHANGED <<live, removals, remover>>
    /\ UNCHANGED <<nextId, proxies>>

\* Handle(handle): wraps an id the native engine handed out, or 0 (Handle()).
HandleNew(p, i) ==
    /\ UNCHANGED <<pvars, rvars, dvars>>
    /\ ~proxies[p].made
    /\ \A q \in ProxyIds : q < p => proxies[q].made
    /\ i < nextId
    /\ proxies' = [proxies EXCEPT ![p] = [NoProxy EXCEPT !.made = TRUE, !.handle = i]]
    /\ hlast' = Event("new", p, i, "ok", i, FALSE)
    /\ UNCHANGED <<live, nextId, removals, remover>>

\* bool(h)
CallBool(p) ==
    /\ UNCHANGED <<pvars, rvars, dvars>>
    /\ proxies[p].made
    /\ hlast' = Event("bool", p, proxies[p].handle, "ok", 0, HandleBool(proxies[p].handle))
    /\ UNCHANGED <<live, nextId, removals, remover, proxies>>

\* int(h)
CallInt(p) ==
    /\ UNCHANGED <<pvars, rvars, dvars>>
    /\ proxies[p].made
    /\ LET r == HandleInt(proxies[p].handle)
       IN  hlast' = Event("int", p, proxies[p].handle, r.exc, r.val, FALSE)
    /\ UNCHANGED <<live, nextId, removals, remover, proxies>>

\* with h as i: ...
CallEnter(p) ==
    /\ UNCHANGED <<pvars, rvars, dvars>>
    /\ proxies[p].made
    /\ LET r == HandleEnter(proxies[p].handle)
       IN  hlast' = Event("enter", p, proxies[p].handle, r.exc, r.val, FALSE)
    /\ UNCHANGED <<live, nextId, removals, remover, proxies>>

\* h.take()
CallTake(p) ==
    /\ UNCHANGED <<pvars, rvars, dvars>>
    /\ proxies[p].made
    /\ LET h == proxies[p].handle
           r == HandleTake(h)
       IN  /\ proxies' = [proxies EXCEPT ![p].handle = r.handle,
                              ![p].ret = IF r.exc = "ok" THEN r.val ELSE @,
                              ![p].retLive = IF r.exc = "ok" THEN r.val \in live ELSE @]
           /\ hlast' = Event("take", p, h, r.exc, r.val, FALSE)
    /\ UNCHANGED <<live, nextId, removals, remover>>

\* h.get_type()
CallGetType(p) ==
    /\ UNCHANGED <<pvars, rvars, dvars>>
    /\ proxies[p].made
    /\ LET r == HandleGetType(proxies[p].handle)
       IN  hlast' = Event("get_type", p, proxies[p].handle, r.exc, 0, r.typ = "ARB_DATA")
    /\ UNCHANGED <<live, nextId, removals, remover, proxies>>

\* h.is_type(typ)
CallIsType(p, typ) ==
    /\ UNCHANGED <<pvars, rvars, dvars>>
    /\ proxies[p].made
    /\ LET r == HandleIsType(proxies[p].handle, typ)
       IN  hlast' = Event("is_type", p, proxies[p].handle, r.exc, 0, r.val)
    /\ UNCHANGED <<live, nextId, removals, remover, proxies>>

\* One run of the finalizer h.__del__(), from the owning execution context or
\* from a foreign one (a garbage collector sweep on another thread).
CallDel(p, ctx) ==
    /\ UNCHANGED <<pvars, rvars, dvars>>
    /\ proxies[p].made
    /\ proxies[p].dels < MaxDel
    /\ LET h == proxies[p].handle
           r == HandleDel(h, dqcs_handle_delete_ok(h, ctx))
       IN  /\ live' = IF r.removed THEN live \ {h} ELSE live
           /\ removals' = IF r.removed THEN [removals EXCEPT ![h] = @ + 1] ELSE removals
           /\ remover' = IF r.removed
                         THEN [remover EXCEPT ![h] = [by |-> "proxy", p |-> p]]
                         ELSE remover
           /\ proxies' = [proxies EXCEPT ![p].dels = @ + 1, ![p].ndel = @ + r.ndel]
           /\ hlast' = [Event("del", p, h, r.exc, 0, FALSE) EXCEPT
                            !.ndel = r.ndel,
                            !.failed = (r.ndel > 0 /\ ~r.removed),
                            !.ctx = ctx]
    /\ UNCHANGED nextId

\* ---------------------------------------------------------------- Plugin
Tokens == 1..MaxToken
Sources == {"host", "upstream"}
\* Identifiers are sequences of characters.
Ifaces == {<<"a">>, <<"b">>}
Opers == {<<"x">>, <<"y">>}
\* The interface sets a plugin of the model may declare per source.
DeclaredChoices == SUBSET {<<"a">>}
\* The payloads of a command: its binary list (_args) and keyed map (_json).
EmptyData == [args |-> <<>>, json |-> {}]
SomeData == [args |-> <<"b1">>, json |-> {"k"}]
\* The commands of the model: one per (iface, oper) pair, with or without data.
Cmds == {[iface |-> <<"a">>, oper |-> <<"x">>, data |-> SomeData],
         [iface |-> <<"a">>, oper |-> <<"y">>, data |-> EmptyData],
         [iface |-> <<"b">>, oper |-> <<"x">>, data |-> EmptyData],
         [iface |-> <<"b">>, oper |-> <<"y">>, data |-> SomeData]}
NoCmd == [iface |-> <<>>, oper |-> <<>>, data |-> EmptyData]

\* 'handle_{}_{}_{}'.format(source, cmd.iface, cmd.oper)
HandlerName(source, iface, oper) ==
    <<"handle", "_", source, "_">> \o iface \o <<"_">> \o oper

\* The methods a plugin class of the model may define: command handlers for
\* operation x of either interface (none for y), handle_drop and get_name.
ArbHandlers == {HandlerName(s, i, <<"x">>) : s \in Sources, i \in Ifaces}
HookNames == {<<"handle_drop">>, <<"get_name">>}
RunHandler == <<"handle_run">>
HandlerUniverse == ArbHandlers \cup HookNames \cup {RunHandler}

\* Exceptions a user handler may raise, and values it may return.
HandlerExcs == {"ValueError", "NotImplementedError"}
HandlerVals == {"None", "ArbData", "other"}

DirectFns == {"random_float", "random_long", "get_measurement", "get_cycle",
              "recv"}
ConvertingFns == {"allocate", "free", "unitary", "measure", "custom_gate",
                  "advance", "arb", "send"}
LogFns == {"log", "trace", "info"}
AccessorFns == DirectFns \cup ConvertingFns \cup LogFns

\* The accessors whose arguments are converted (and may be rejected) before
\* the plugin state is looked at: the `with ..._to_raw(...)` and ArbCmd(...)
\* expressions, int(cycles), and log()'s level check.
ChecksArgsFirst(fn) == fn \in ConvertingFns \/ fn = "log"

\* Whether the arguments of a call are well-formed: they pass the conversion
\* above or, for trace(), info(), ... the msg.format() of _log. The accessors
\* that hand their arguments to the native call as they are have no such step.
ArgChoices(fn) == IF fn \in DirectFns THEN {TRUE} ELSE BOOLEAN

\* The raw.dqcs_plugin_* function an accessor hands to _pc.
PluginFn(fn) == <<"dqcs_plugin", fn>>

\* Plugin._pc: [exc, native, tok]
PcUnchecked(sh, fn) ==
    [exc |-> "ok", native |-> PluginFn(fn), tok |-> sh]

Pc(sh, fn) ==
    IF sh = None
    THEN [exc |-> "RuntimeError", native |-> <<>>, tok |-> None]
    ELSE [exc |-> "ok", native |-> PluginFn(fn), tok |-> sh]

\* Plugin._log: checks the state handle, formats the message, then calls
\* raw.dqcs_log_raw, which takes no state handle.
Log(sh, formatOk) ==
    IF sh = None
    THEN [exc |-> "RuntimeError", native |-> <<>>, tok |-> None]
    ELSE IF ~formatOk
    THEN [exc |-> "ArgError", native |-> <<>>, tok |-> None]
    ELSE [exc |-> "ok", native |-> <<"dqcs_log_raw">>, tok |-> None]

\* One accessor call as a whole.
AccessorCall(sh, fn, argsOk) ==
    IF ChecksArgsFirst(fn) /\ ~argsOk
    THEN [exc |-> "ArgError", native |-> <<>>, tok |-> None]
    ELSE IF fn \in LogFns THEN Log(sh, argsOk) ELSE Pc(sh, fn)

\* Plugin._cb up to the call of the handler: the lookup and the guard.
CbGuardNoRecursionCheck(name, sh) ==
    IF name \notin defined THEN "NotImplementedError" ELSE "enter"

CbGuard(name, sh) ==
    IF name \notin defined THEN "NotImplementedError"
    ELSE IF sh # None THEN "RuntimeError"
    ELSE "enter"

\* Plugin._cb, `except Exception`: the traceback is logged with self.trace,
\* which itself needs the state handle, and the exception is re-raised.
CbRaise(token, exc) ==
    IF Log(token, TRUE).exc = "ok" THEN exc ELSE Log(token, TRUE).exc

\* Plugin._cb, `finally`: the state handle after the handler has ended.
CbExitKeepOnError(sh, raised) == IF raised THEN sh ELSE None

CbExit(sh, raised) == None

\* Plugin._route_converted_arb, the interface check before _cb.
RouteArbPre(source, cmd) ==
    IF ~arbIfaces.set THEN "AttributeError"
    ELSE IF cmd.iface \notin arbIfaces.known[source] THEN "skip"
    ELSE "cb"

\* Plugin._route_converted_arb, what becomes of an exception of _cb.
InvalidOperation(cmd) ==
    [exc |-> "ValueError",
     msg |-> <<"Invalid operation ID", cmd.oper, "for interface ID", cmd.iface>>]

RouteArbExcPropagate(exc, cmd) == [exc |-> exc, msg |-> <<>>]

RouteArbExc(exc, cmd) ==
    IF exc = "NotImplementedError" THEN InvalidOperation(cmd)
    ELSE [exc |-> exc, msg |-> <<>>]

\* Plugin._route_host_arb / Backend._route_upstream_arb, after the handler:
\* None becomes an empty ArbData, an ArbData is returned, else TypeError.
RouteArbResultUnchecked(val) ==
    IF val = "None" THEN [exc |-> "ok", ret |-> "empty"]
    ELSE [exc |-> "ok", ret |-> "data"]

RouteArbResult(val) ==
    IF val = "None" THEN [exc |-> "ok", ret |-> "empty"]
    ELSE IF val = "ArbData" THEN [exc |-> "ok", ret |-> "data"]
    ELSE [exc |-> "TypeError", ret |-> "none"]

\* Frontend._route_run, after handle_run: the same conversion of the result.
RouteRunResult(val) ==
    IF val = "None" THEN [exc |-> "ok", ret |-> "empty"]
    ELSE IF val = "ArbData" THEN [exc |-> "ok", ret |-> "data"]
    ELSE [exc |-> "TypeError", ret |-> "none"]

\* Plugin._cb, the error for a handler the plugin does not define.
CbMissing(name) ==
    <<"Python plugin doesn't implement", name, "(), which is a required function!">>

\* Plugin._route_drop: a missing handle_drop is not an error.
RouteDropExc(exc) == IF exc = "NotImplementedError" THEN "ok" ELSE exc

\* ------------------------------------------------- route callbacks: data
\* The hooks a plugin may leave out (their route functions catch the
\* NotImplementedError of _cb).
MayHooks == {<<"handle_drop">>, <<"handle_allocate">>, <<"handle_free">>,
             <<"handle_advance">>}

\* 'handle_{}_gate'.format(name)
GateHandlerName(name) == <<"handle", "_">> \o name \o <<"_", "gate">>

\* The values a handler may return: None, an ArbData, a list of Measurement
\* objects, or something else.
RouteVals == {"None", "ArbData", "measurements", "other"}

\* 2**n
RECURSIVE Pow2(_)
Pow2(n) == IF n = 0 THEN 1 ELSE 2 * Pow2(n - 1)

\* A gate matrix is a row-major list of complex numbers; the model writes 0
\* for 0.0+0.0j, 1 for 1.0+0.0j and k > 1 for other, pairwise different
\* entries. NoMatrix is `matrix = None`.
NoMatrix == [has |-> FALSE, m |-> <<>>]
Matrix(m) == [has |-> TRUE, m |-> m]
PauliX == <<0, 1, 1, 0>>
GenericMatrix(t) == [k \in 1..(Pow2(t) * Pow2(t)) |-> k + 1]
Matrices(t) ==
    IF t = 0 THEN {NoMatrix}
    ELSE IF t = 1 THEN {NoMatrix, Matrix(PauliX), Matrix(GenericMatrix(1))}
    ELSE {Matrix(GenericMatrix(t))}

\* Qubit lists as QubitSet._from_raw returns them: targets 1.., controls
\* 11.., measures 21.
TargetChoices == {[k \in 1..n |-> k] : n \in 0..MaxTargets}
ControlChoices == {[k \in 1..n |-> 10 + k] : n \in 0..MaxControls}
MeasureChoices == {<<>>, <<21>>}

\* The gates of the model: name is <<>> for a gate that is not custom.
Gate(name, targets, controls, measures, matrix, data) ==
    [name |-> name, targets |-> targets, controls |-> controls,
     measures |-> measures, matrix |-> matrix, data |-> data]
NoGate == Gate(<<>>, <<>>, <<>>, <<>>, NoMatrix, EmptyData)
PlainGates ==
    {Gate(<<>>, t, c, ms, mx, EmptyData) :
        t \in TargetChoices, c \in ControlChoices, ms \in MeasureChoices,
        mx \in UNION {Matrices(n) : n \in 0..MaxTargets}}
CustomGates ==
    {Gate(<<"foo">>, <<1>>, <<11>>, <<21>>, NoMatrix, SomeData),
     Gate(<<"foo">>, <<1>>, <<11>>, <<>>, Matrix(PauliX), EmptyData),
     Gate(<<"bar">>, <<1>>, <<>>, <<>>, Matrix(PauliX), EmptyData)}
\* A gate the native engine hands over has a matrix that fits its targets.
Gates ==
    {g \in PlainGates : g.matrix \in Matrices(Len(g.targets))} \cup CustomGates

\* Initialization command queues, as ArbCmdQueue._from_raw returns them, of
\* a command that may have a handler, one of the same interface that has
\* none, and one of another interface.
InitCmds == {c \in Cmds : c.iface = <<"a">> \/ c.oper = <<"x">>}
CmdQueues == UNION {[1..n -> InitCmds] : n \in 0..MaxCmds}

\* The state handle that the native engine passes to the route callbacks of
\* one plugin instance.
RouteTokens == {MaxToken}

\* The arguments of one handler call.
NoArgs == [targets |-> <<>>, controls |-> <<>>, measures |-> <<>>,
           matrix |-> NoMatrix, args |-> <<>>, kwargs |-> {}, cmds |-> <<>>]

\* A route callback: its arguments, the local variables of the route
\* function, the handler calls made so far and, once it has ended, its result.
NoJob ==
    [kind |-> "none", token |-> None, source |-> "none", hook |-> <<>>,
     cmds |-> <<>>, idx |-> 0, gate |-> NoGate, data |-> EmptyData,
     pc |-> "done", site |-> "none", running |-> <<>>, sh |-> None,
     targets |-> <<>>, matrix |-> NoMatrix,
     calls |-> <<>>, ends |-> <<>>, rerouted |-> <<>>, handlerExc |-> "none",
     exc |-> "ok", msg |-> <<>>, ret |-> "none"]

NoPEvent ==
    [kind |-> "none", route |-> "none", source |-> "none", name |-> <<>>,
     cmd |-> NoCmd, token |-> None, preToken |-> None, depth |-> 0,
     pre |-> "none", cb |-> "none", entered |-> FALSE, exc |-> "ok",
     msg |-> <<>>, ret |-> "none", val |-> "none", fn |-> "none",
     argsOk |-> TRUE,
     native |-> <<>>, nativeTok |-> None]

PFixed ==
    /\ defined = {}
    /\ arbIfaces = [set |-> FALSE, known |-> [s \in Sources |-> {}]]
    /\ stateHandle = None
    /\ stack = <<>>
    /\ hadFailure = FALSE
    /\ plast = NoPEvent
    /\ job = NoJob

\* The plugin configurations of the model: the class defines some handlers,
\* and its __init__ may or may not have set _arb_interfaces.
DefinedChoices == {S \in SUBSET HandlerUniverse : Cardinality(S) <= MaxDefined}
ArbIfacesChoices ==
    {[set |-> FALSE, known |-> [s \in Sources |-> {}]]} \cup
    {[set |-> TRUE, known |-> k] : k \in [Sources -> DeclaredChoices]}

Frame(route, name, token, cmd) ==
    [route |-> route, name |-> name, token |-> token, args |-> cmd.data.args,
     kwargs |-> cmd.data.json, cmd |-> cmd]

Top == stack[Len(stack)]

Delivery(route, source, name, token, cmd) ==
    [NoPEvent EXCEPT !.kind = "deliver", !.route = route, !.source = source,
                     !.name = name, !.cmd = cmd, !.token = token,
                     !.preToken = stateHandle, !.depth = Len(stack)]

\* What _cb(token, name) does when a route function calls it: the handler is
\* entered (it then runs until HandlerReturn or HandlerRaise), or _cb raises
\* at once and `failure` says what the route function makes of that.
Dispatch(ev, failure) ==
    LET g == CbGuard(ev.name, stateHandle)
    IN  IF g = "enter"
        THEN /\ Len(stack) < MaxDepth
             /\ stack' = Append(stack, Frame(ev.route, ev.name, ev.token, ev.cmd))
             /\ stateHandle' = ev.token
             /\ plast' = [ev EXCEPT !.pre = "cb", !.cb = g, !.entered = TRUE,
                                    !.exc = "pending"]
             /\ UNCHANGED hadFailure
        ELSE /\ plast' = [ev EXCEPT !.pre = "cb", !.cb = g,
                                    !.exc = failure[g].exc, !.msg = failure[g].msg]
             /\ UNCHANGED <<stack, stateHandle, hadFailure>>

\* _route_host_arb / _route_upstream_arb is called with a command.
DeliverArb(source, token, cmd) ==
    LET ev == Delivery("arb", source, HandlerName(source, cmd.iface, cmd.oper), token, cmd)
        pre == RouteArbPre(source, cmd)
    IN  /\ IF pre = "cb"
           THEN Dispatch(ev, [g \in {"NotImplementedError", "RuntimeError"} |->
                                  RouteArbExc(g, cmd)])
           ELSE /\ plast' = [ev EXCEPT !.pre = pre,
                                 !.exc = IF pre = "skip" THEN RouteArbResult("None").exc
                                         ELSE pre,
                                 !.ret = IF pre = "skip" THEN RouteArbResult("None").ret
                                         ELSE "none"]
                /\ UNCHANGED <<stack, stateHandle, hadFailure>>
        /\ UNCHANGED <<defined, arbIfaces>>
        /\ UNCHANGED <<hvars, rvars, dvars>>

\* _route_drop is called.
DeliverDrop(token) ==
    /\ UNCHANGED <<hvars, rvars, dvars>>
    /\ Dispatch(Delivery("drop", "none", <<"handle_drop">>, token, NoCmd),
                [g \in {"NotImplementedError", "RuntimeError"} |->
                    [exc |-> RouteDropExc(g), msg |-> <<>>]])
    /\ UNCHANGED <<defined, arbIfaces>>

\* _new_pdef calls self._cb(None, 'get_name').
DeliverMeta ==
    /\ UNCHANGED <<hvars, rvars, dvars>>
    /\ Dispatch(Delivery("meta", "none", <<"get_name">>, None, NoCmd),
                [g \in {"NotImplementedError", "RuntimeError"} |->
                    [exc |-> g, msg |-> <<>>]])
    /\ UNCHANGED <<defined, arbIfaces>>

\* _route_run is called with the argument of the run request.
DeliverRun(token, data) ==
    /\ UNCHANGED <<hvars, rvars, dvars>>
    /\ Dispatch(Delivery("run", "none", RunHandler, token,
                          [NoCmd EXCEPT !.data = data]),
                [g \in {"NotImplementedError", "RuntimeError"} |->
                    [exc |-> g,
                     msg |-> IF g = "NotImplementedError"
                             THEN CbMissing(RunHandler) ELSE <<>>]])
    /\ UNCHANGED <<defined, arbIfaces>>

\* The innermost executing handler returns val.
HandlerReturn(val) ==
    /\ UNCHANGED <<hvars, rvars, dvars>>
    /\ stack # <<>>
    /\ LET f == Top
           r == IF f.route = "arb" THEN RouteArbResult(val)
                ELSE IF f.route = "run" THEN RouteRunResult(val)
                ELSE [exc |-> "ok", ret |-> "none"]
       IN  /\ plast' = [NoPEvent EXCEPT !.kind = "return", !.route = f.route,
                            !.name = f.name, !.cmd = f.cmd, !.token = f.token,
                            !.preToken = stateHandle, !.depth = Len(stack),
                            !.exc = r.exc, !.ret = r.ret, !.val = val]
           /\ hadFailure' = (hadFailure \/ r.exc # "ok")
    /\ stack' = SubSeq(stack, 1, Len(stack) - 1)
    /\ stateHandle' = CbExit(stateHandle, FALSE)
    /\ UNCHANGED <<defined, arbIfaces>>

\* The innermost executing handler raises exc.
HandlerRaise(exc) ==
    /\ UNCHANGED <<hvars, rvars, dvars>>
    /\ stack # <<>>
    /\ LET f == Top
           e == CbRaise(stateHandle, exc)
           r == IF f.route = "arb" THEN RouteArbExc(e, f.cmd)
                ELSE IF f.route = "drop" THEN [exc |-> RouteDropExc(e), msg |-> <<>>]
                ELSE [exc |-> e, msg |-> <<>>]
       IN  /\ plast' = [NoPEvent EXCEPT !.kind = "raise", !.route = f.route,
                            !.name = f.name, !.cmd = f.cmd, !.token = f.token,
                            !.preToken = stateHandle, !.depth = Len(stack),
                            !.exc = r.exc, !.msg = r.msg]
           /\ hadFailure' = TRUE
    /\ stack' = SubSeq(stack, 1, Len(stack) - 1)
    /\ stateHandle' = CbExit(stateHandle, TRUE)
    /\ UNCHANGED <<defined, arbIfaces>>

\* User code calls an accessor: from a handler, or from outside any callback.
Accessor(fn, argsOk) ==
    /\ UNCHANGED <<hvars, rvars, dvars>>
    /\ LET r == AccessorCall(stateHandle, fn, argsOk)
       IN  plast' = [NoPEvent EXCEPT !.kind = "accessor", !.fn = fn,
                         !.argsOk = argsOk, !.preToken = stateHandle,
                         !.depth = Len(stack), !.exc = r.exc,
                         !.native = r.native, !.nativeTok = r.tok]
    /\ UNCHANGED <<defined, arbIfaces, stateHandle, stack, hadFailure>>

\* ------------------------------------------------ route callbacks: code
\* list[a:b] and list[a:b] = vals, for 0 <= a <= b <= len(list)
Slice(list, a, b) == SubSeq(list, a + 1, b)
SliceAssign(list, a, b, vals) ==
    SubSeq(list, 1, a) \o vals \o SubSeq(list, b + 1, Len(list))

\* _route_gate: `for i in range(cur_size): ext_matrix[...] = matrix[...]`
RECURSIVE CopyRows(_, _, _, _, _, _)
CopyRows(ext, matrix, i, cur_size, ext_size, offset) ==
    IF i >= cur_size THEN ext
    ELSE CopyRows(SliceAssign(ext, (offset + i) * ext_size + offset,
                              (offset + i) * ext_size + ext_size,
                              Slice(matrix, i * cur_size, i * cur_size + cur_size)),
                  matrix, i + 1, cur_size, ext_size, offset)

\* _route_gate: `for i in range(offset): ext_matrix[i*ext_size + i] = 1.0+0.0j`
RECURSIVE SetDiagonal(_, _, _, _)
SetDiagonal(ext, i, ext_size, offset) ==
    IF i >= offset THEN ext
    ELSE SetDiagonal([ext EXCEPT ![i * ext_size + i + 1] = 1], i + 1, ext_size, offset)

\* _route_gate: the conversion of a gate matrix to a controlled gate matrix
\* (every gate of the model satisfies the assert on len(matrix)).
UpscaleTargetsFirst(targets, controls, matrix) ==
    LET cur_size == Pow2(Len(targets))
        ext_size == Pow2(Len(controls) + Len(targets))
        zero == [k \in 1..(ext_size * ext_size) |-> 0]
    IN  [targets |-> targets \o controls,
         matrix |-> Matrix(SetDiagonal(CopyRows(zero, matrix.m, 0, cur_size, ext_size, 0),
                                       cur_size, ext_size, ext_size))]

Upscale(targets, controls, matrix) ==
    LET cur_nq == Len(targets)
        cur_size == Pow2(cur_nq)
        ext_nq == Len(controls) + Len(targets)
        ext_size == Pow2(ext_nq)
        offset == ext_size - cur_size
        zero == [k \in 1..(ext_size * ext_size) |-> 0]
    IN  [targets |-> controls \o targets,
         matrix |-> Matrix(SetDiagonal(CopyRows(zero, matrix.m, 0, cur_size, ext_size, offset),
                                       0, ext_size, offset))]

\* `if targets and matrix`: None and the empty list are both false.
Truthy(matrix) == matrix.has /\ matrix.m # <<>>

\* _route_allocate, _route_free, _route_advance, _route_drop:
\* `except NotImplementedError: pass`
RouteHookExcPropagate(exc) == exc

RouteHookExc(exc) == IF exc = "NotImplementedError" THEN "ok" ELSE exc

\* _route_initialize, `except NotImplementedError:` around handle_init.
RouteInitReroutes(exc) == exc = "NotImplementedError"

\* _route_gate, `except NotImplementedError: pass` around
\* handle_controlled_gate, and the statements after it.
RouteCtrlContinues(exc) == exc \in {"ok", "NotImplementedError"}

\* MeasurementSet._to_raw(measurements).take() at the end of _route_gate.
MsetToRaw(val) ==
    IF val = "measurements" THEN [exc |-> "ok", ret |-> "mset"]
    ELSE [exc |-> "TypeError", ret |-> "none"]

\* The route function ends: by raising, or by returning ret.
Fail(j, exc, msg) == [j EXCEPT !.pc = "done", !.exc = exc, !.msg = msg]
Finish(j, ret) == [j EXCEPT !.pc = "done", !.exc = "ok", !.ret = ret]

RECURSIVE AfterCb(_, _)

\* The route function calls self._cb(token, name, ...) at `site`: the handler
\* is entered and runs, or _cb raises at once and the route function goes on.
Cb(j, site, name, args) ==
    LET g == CbGuard(name, j.sh)
    IN  IF g = "enter"
        THEN [j EXCEPT !.pc = "handler", !.site = site, !.running = name,
                       !.sh = j.token,
                       !.calls = Append(@, [name |-> name, args |-> args])]
        ELSE AfterCb([j EXCEPT !.site = site, !.running = name],
                     [exc |-> g, val |-> "none",
                      msg |-> IF g = "NotImplementedError" THEN CbMissing(name)
                              ELSE <<"Invalid state, recursive callback">>])

\* _route_converted_arb for one command of the initialization queue.
RouteConvertedArb(j, cmd) ==
    LET pre == RouteArbPre(j.source, cmd)
        j1 == [j EXCEPT !.rerouted = Append(@, cmd)]
    IN  IF pre = "AttributeError" THEN Fail(j1, pre, <<>>)
        ELSE IF pre = "skip"
        THEN AfterCb([j1 EXCEPT !.site = "cmd"],
                     [exc |-> "ok", val |-> "None", msg |-> <<>>])
        ELSE Cb(j1, "cmd", HandlerName(j.source, cmd.iface, cmd.oper),
                [NoArgs EXCEPT !.args = cmd.data.args, !.kwargs = cmd.data.json])

\* _route_initialize: `for cmd in cmds: self._route_converted_arb(...)`
Reroute(j) ==
    IF j.idx > Len(j.cmds) THEN Finish(j, "none")
    ELSE RouteConvertedArb(j, j.cmds[j.idx])

\* _route_gate from the call of handle_unitary_gate on.
GateMeasureIfDefined(j) ==
    IF j.gate.measures # <<>> /\ <<"handle_measurement_gate">> \in defined
    THEN Cb(j, "measure", <<"handle_measurement_gate">>,
            [NoArgs EXCEPT !.measures = j.gate.measures])
    ELSE Finish(j, "mset")

GateMeasureAlways(j) ==
    Cb(j, "measure", <<"handle_measurement_gate">>,
       [NoArgs EXCEPT !.measures = j.gate.measures])

GateMeasure(j) ==
    IF j.gate.measures # <<>>
    THEN Cb(j, "measure", <<"handle_measurement_gate">>,
            [NoArgs EXCEPT !.measures = j.gate.measures])
    ELSE LET r == MsetToRaw("measurements")
         IN  IF r.exc = "ok" THEN Finish(j, r.ret) ELSE Fail(j, r.exc, <<>>)

GateUnitary(j) ==
    Cb(j, "unitary", <<"handle_unitary_gate">>,
       [NoArgs EXCEPT !.targets = j.targets, !.matrix = j.matrix])

\* _route_gate from its start to the first handler it enters.
GateStartIgnoringName(j) ==
    LET g == j.gate
    IN  IF g.targets # <<>> /\ Truthy(g.matrix)
        THEN IF g.controls # <<>>
             THEN Cb(j, "ctrl", <<"handle_controlled_gate">>,
                     [NoArgs EXCEPT !.targets = g.targets, !.controls = g.controls,
                                    !.matrix = g.matrix])
             ELSE GateUnitary(j)
        ELSE GateMeasure(j)

GateStart(j) ==
    LET g == j.gate
    IN  IF g.name # <<>>
        THEN Cb(j, "custom", GateHandlerName(g.name),
                [NoArgs EXCEPT !.targets = g.targets, !.controls = g.controls,
                               !.measures = g.measures, !.matrix = g.matrix,
                               !.args = g.data.args, !.kwargs = g.data.json])
        ELSE IF g.targets # <<>> /\ Truthy(g.matrix)
        THEN IF g.controls # <<>>
             THEN Cb(j, "ctrl", <<"handle_controlled_gate">>,
                     [NoArgs EXCEPT !.targets = g.targets, !.controls = g.controls,
                                    !.matrix = g.matrix])
             ELSE GateUnitary(j)
        ELSE GateMeasure(j)

\* What the route function does once the _cb call at j.site has ended with
\* `out` (a returned value, or an exception), up to the next handler it enters
\* or to its end.
AfterCb(j, out) ==
    CASE j.site = "init" ->
            IF out.exc = "ok" THEN Finish(j, "none")
            ELSE IF RouteInitReroutes(out.exc) THEN Reroute([j EXCEPT !.idx = 1])
            ELSE Fail(j, out.exc, out.msg)
      [] j.site = "cmd" ->
            IF out.exc = "ok" THEN Reroute([j EXCEPT !.idx = @ + 1])
            ELSE LET r == RouteArbExc(out.exc, j.cmds[j.idx])
                 IN  Fail(j, r.exc, r.msg)
      [] j.site = "hook" ->
            IF RouteHookExc(out.exc) = "ok" THEN Finish(j, "none")
            ELSE Fail(j, out.exc, out.msg)
      [] j.site = "run" ->
            IF out.exc # "ok" THEN Fail(j, out.exc, out.msg)
            ELSE LET r == RouteRunResult(out.val)
                 IN  IF r.exc = "ok" THEN Finish(j, r.ret) ELSE Fail(j, r.exc, <<>>)
      [] j.site = "get_name" ->
            IF out.exc # "ok" THEN Fail(j, out.exc, out.msg)
            ELSE Cb(j, "get_author", <<"get_author">>, NoArgs)
      [] j.site = "get_author" ->
            IF out.exc # "ok" THEN Fail(j, out.exc, out.msg)
            ELSE Cb(j, "get_version", <<"get_version">>, NoArgs)
      [] j.site = "get_version" ->
            IF out.exc # "ok" THEN Fail(j, out.exc, out.msg)
            ELSE Finish(j, "pdef")
      [] j.site = "ctrl" ->
            IF RouteCtrlContinues(out.exc)
            THEN LET u == Upscale(j.targets, j.gate.controls, j.matrix)
                 IN  GateUnitary([j EXCEPT !.targets = u.targets, !.matrix = u.matrix])
            ELSE Fail(j, out.exc, out.msg)
      [] j.site = "unitary" ->
            IF out.exc # "ok" THEN Fail(j, out.exc, out.msg)
            ELSE GateMeasure(j)
      [] j.site \in {"measure", "custom"} ->
            IF out.exc # "ok" THEN Fail(j, out.exc, out.msg)
            ELSE LET r == MsetToRaw(out.val)
                 IN  IF r.exc = "ok" THEN Finish(j, r.ret) ELSE Fail(j, r.exc, <<>>)

\* The values a handler at a site of the model returns: command and run
\* handlers None, an ArbData or something else; gate handlers a list of
\* measurements, None or something else; the getters a string.
ValsAt(site) ==
    IF site \in {"cmd", "run"} THEN {"None", "ArbData", "other"}
    ELSE IF site \in {"measure", "custom"} THEN {"measurements", "None", "other"}
    ELSE IF site \in {"get_name", "get_author", "get_version"} THEN {"other"}
    ELSE {"None"}

\* The calls of the handler `name` that the route callback has made.
CallsOf(name) == SelectSeq(job.calls, LAMBDA c : c.name = name)

\* A route callback arrives at the idle instance.
NewJob(kind, token) ==
    [NoJob EXCEPT !.kind = kind, !.token = token, !.pc = "run", !.sh = stateHandle]

Started(j) ==
    /\ job.pc = "done"
    /\ job' = j
    /\ stateHandle' = j.sh
    /\ UNCHANGED <<hvars, dvars, defined, arbIfaces, stack, hadFailure, plast>>

\* Plugin._route_initialize(state_handle, init_cmds_handle)
RouteInitialize(token, cmds) ==
    Started(Cb([NewJob("init", token) EXCEPT !.source = "host", !.cmds = cmds],
               "init", <<"handle_init">>, [NoArgs EXCEPT !.cmds = cmds]))

\* _route_drop, _route_allocate, _route_free, _route_advance
RouteHook(hook, token) ==
    Started(Cb([NewJob("hook", token) EXCEPT !.hook = hook], "hook", hook, NoArgs))

\* Plugin._new_pdef: the three metadata getters, without a state handle.
NewPdef ==
    Started(Cb(NewJob("meta", None), "get_name", <<"get_name">>, NoArgs))

\* Frontend._route_run(state_handle, arb_handle)
RouteRun(token, data) ==
    Started(Cb([NewJob("run", token) EXCEPT !.data = data], "run", RunHandler,
               [NoArgs EXCEPT !.args = data.args, !.kwargs = data.json]))

\* Backend._route_gate(state_handle, gate_handle)
RouteGate(token, gate) ==
    Started(GateStart([NewJob("gate", token) EXCEPT !.gate = gate,
                           !.targets = gate.targets, !.matrix = gate.matrix]))

\* The handler that a route callback entered returns val.
RouteReturn(val) ==
    /\ job.pc = "handler"
    /\ val \in ValsAt(job.site)
    /\ job' = AfterCb([job EXCEPT !.pc = "run", !.sh = CbExit(job.sh, FALSE),
                                  !.ends = Append(@, "ok")],
                      [exc |-> "ok", val |-> val, msg |-> <<>>])
    /\ stateHandle' = job'.sh
    /\ UNCHANGED <<hvars, dvars, defined, arbIfaces, stack, hadFailure, plast>>

\* The handler that a route callback entered raises exc.
RouteRaise(exc) ==
    /\ job.pc = "handler"
    /\ job' = AfterCb([job EXCEPT !.pc = "run", !.sh = CbExit(job.sh, TRUE),
                                  !.ends = Append(@, exc), !.handlerExc = exc],
                      [exc |-> CbRaise(job.sh, exc), val |-> "none", msg |-> <<>>])
    /\ stateHandle' = job'.sh
    /\ UNCHANGED <<hvars, dvars, defined, arbIfaces, stack, hadFailure, plast>>

\* The call getattr(self, name)(*args, **kwargs) in _cb cannot bind the
\* arguments to the parameters of the handler (a handle_init(self) called
\* with the command list): the call raises TypeError inside the try blocks of
\* _cb before any statement of the handler ran.
RouteCallRejected ==
    /\ job.pc = "handler"
    /\ job' = AfterCb([job EXCEPT !.pc = "run", !.sh = CbExit(job.sh, TRUE),
                                  !.ends = Append(@, "TypeError"),
                                  !.handlerExc = "TypeError"],
                      [exc |-> CbRaise(job.sh, "TypeError"), val |-> "none",
                       msg |-> <<>>])
    /\ stateHandle' = job'.sh
    /\ UNCHANGED <<hvars, dvars, defined, arbIfaces, stack, hadFailure, plast>>

\* ------------------------------------------------------------ data types
\* dqcsim/common/arb.py, cmd.py, meas.py, qbset.py, cq.py, mset.py: the value
\* types that cross the boundary and their codecs.  Byte strings and text are
\* sequences of byte values; a Python value is a record with a type tag.

\* The size of the buffers ArbData._from_raw probes the native getters with.
ProbeSize == 256

MaxArgs == 2
MaxIdent == 2
MaxQubit == 2
MaxSeq == 3
MaxItems == 1

PyVal(cls, n, b, items) == [cls |-> cls, n |-> n, b |-> b, items |-> items]
PInt(n) == PyVal("int", n, <<>>, <<>>)
PBytes(b) == PyVal("bytes", 0, b, <<>>)
PStr(b) == PyVal("str", 0, b, <<>>)
PList(items) == PyVal("list", 0, <<>>, items)
\* An instance of a class the wire format has no encoding for.
PObject == PyVal("object", 0, <<>>, <<>>)
\* A reference to a list that lives in the heap of the ArbData object model.
PRef(a) == PyVal("ref", a, <<>>, <<>>)

\* The keys of the keyed maps of the model and their UTF-8 encodings.
JsonKeys == {"k", "self"}
JsonKeyOrder == <<"k", "self">>
Utf8(key) == IF key = "k" THEN <<107>> ELSE <<115, 101, 108, 102>>

\* memoryview(arg) succeeds for objects that implement the buffer protocol.
IsBuffer(v) == v.cls = "bytes"

\* ---------------------------------------------------------- wire format
\* cbor.dumps / cbor.loads for the values of the model: unsigned integers,
\* byte strings, text strings, arrays, and a toplevel map with text keys.
CborHead(major, n) ==
    IF n < 24 THEN <<major * 32 + n>>
    ELSE IF n < 256 THEN <<major * 32 + 24, n>>
    ELSE <<major * 32 + 25, n \div 256, n % 256>>

RECURSIVE CborEncodable(_)
CborEncodable(v) ==
    CASE v.cls \in {"int", "bytes", "str"} -> TRUE
      [] v.cls = "list" -> \A i \in 1..Len(v.items) : CborEncodable(v.items[i])
      [] OTHER -> FALSE

RECURSIVE CborItem(_)
RECURSIVE CborItems(_)
CborItems(items) ==
    IF items = <<>> THEN <<>> ELSE CborItem(Head(items)) \o CborItems(Tail(items))

CborItem(v) ==
    CASE v.cls = "int" -> CborHead(0, v.n)
      [] v.cls = "bytes" -> CborHead(2, Len(v.b)) \o v.b
      [] v.cls = "str" -> CborHead(3, Len(v.b)) \o v.b
      [] v.cls = "list" -> CborHead(4, Len(v.items)) \o CborItems(v.items)

PresentKeys(json) == SelectSeq(JsonKeyOrder, LAMBDA k : k \in DOMAIN json)

RECURSIVE CborPairs(_, _)
CborPairs(keys, json) ==
    IF keys = <<>> THEN <<>>
    ELSE CborItem(PStr(Utf8(Head(keys)))) \o CborItem(json[Head(keys)])
         \o CborPairs(Tail(keys), json)

\* cbor.dumps(ob) for a dict ob: the encoding, or ValueError for a value that
\* has none.
CborDumps(json) ==
    IF \A k \in DOMAIN json : CborEncodable(json[k])
    THEN [exc |-> "ok",
          bytes |-> CborHead(5, Cardinality(DOMAIN json))
                    \o CborPairs(PresentKeys(json), json)]
    ELSE [exc |-> "ValueError", bytes |-> <<>>]

CborReadHead(buf, p) ==
    LET major == buf[p] \div 32
        info == buf[p] % 32
    IN  IF info < 24 THEN [major |-> major, n |-> info, next |-> p + 1]
        ELSE IF info = 24 THEN [major |-> major, n |-> buf[p + 1], next |-> p + 2]
        ELSE [major |-> major, n |-> buf[p + 1] * 256 + buf[p + 2],
              next |-> p + 3]

RECURSIVE CborReadItem(_, _)
RECURSIVE CborReadItems(_, _, _)
CborReadItems(buf, p, count) ==
    IF count = 0 THEN [items |-> <<>>, next |-> p]
    ELSE LET Cons(first, rest) ==
                 [items |-> <<first.v>> \o rest.items, next |-> rest.next]
             Rest(first) == Cons(first, CborReadItems(buf, first.next, count - 1))
         IN  Rest(CborReadItem(buf, p))

CborReadItem(buf, p) ==
    LET AsList(r) == [v |-> PList(r.items), next |-> r.next]
        Item(h) ==
            CASE h.major = 0 -> [v |-> PInt(h.n), next |-> h.next]
              [] h.major = 2 ->
                    [v |-> PBytes(SubSeq(buf, h.next, h.next + h.n - 1)),
                     next |-> h.next + h.n]
              [] h.major = 3 ->
                    [v |-> PStr(SubSeq(buf, h.next, h.next + h.n - 1)),
                     next |-> h.next + h.n]
              [] h.major = 4 -> AsList(CborReadItems(buf, h.next, h.n))
    IN  Item(CborReadHead(buf, p))

RECURSIVE CborReadPairs(_, _, _)
CborReadPairs(buf, p, count) ==
    IF count = 0 THEN <<>>
    ELSE LET Pair(key, val) ==
                 <<[key |-> CHOOSE k \in JsonKeys : Utf8(k) = key.v.b, v |-> val.v]>>
                 \o CborReadPairs(buf, val.next, count - 1)
             Value(key) == Pair(key, CborReadItem(buf, key.next))
         IN  Value(CborReadItem(buf, p))

\* cbor.loads(buf): the first data item of the buffer, a map; what follows
\* the item in the buffer is not read.
CborLoads(buf) ==
    LET AsDict(pairs) ==
            [k \in {pairs[i].key : i \in 1..Len(pairs)} |->
                pairs[CHOOSE i \in 1..Len(pairs) : pairs[i].key = k].v]
        Pairs(h) == AsDict(CborReadPairs(buf, h.next, h.n))
    IN  Pairs(CborReadHead(buf, 1))

\* ------------------------------------------------- native data objects
\* The objects behind arb, cmd and meas handles, and the raw.dqcs_* calls
\* that read and write them.
EmptyMapCbor == CborHead(5, 0)

dqcs_arb_new ==
    [kind |-> "arb", iface |-> <<>>, oper |-> <<>>, qubit |-> 0,
     value |-> "UNDEFINED", cbor |-> EmptyMapCbor, args |-> <<>>]

dqcs_cmd_new(iface, oper) ==
    [dqcs_arb_new EXCEPT !.kind = "cmd", !.iface = iface, !.oper = oper]

dqcs_meas_new(qubit, value) ==
    [dqcs_arb_new EXCEPT !.kind = "meas", !.qubit = qubit, !.value = value]

dqcs_arb_clear(h) == [h EXCEPT !.cbor = EmptyMapCbor, !.args = <<>>]

dqcs_arb_cbor_set(h, bytes) == [h EXCEPT !.cbor = bytes]

dqcs_arb_push_raw(h, arg) == [h EXCEPT !.args = Append(@, arg)]

\* A getter copies as much of the data as the caller's buffer holds and
\* returns the full length of the data.
FillBuffer(buf, data) ==
    [i \in 1..Len(buf) |-> IF i <= Len(data) THEN data[i] ELSE buf[i]]

dqcs_arb_cbor_get(h, buf) == [ret |-> Len(h.cbor), buf |-> FillBuffer(buf, h.cbor)]

dqcs_arb_len(h) == Len(h.args)

dqcs_arb_get_raw(h, i, buf) ==
    [ret |-> Len(h.args[i + 1]), buf |-> FillBuffer(buf, h.args[i + 1])]

\* bytearray(n): n zero bytes.
ByteArray(n) == [i \in 1..n |-> 0]

\* ----------------------------------------------------- ArbData and kin
\* An ArbData, ArbCmd or Measurement object: its class and its fields.
PyObj(cls, iface, oper, qubit, value, args, json) ==
    [cls |-> cls, iface |-> iface, oper |-> oper, qubit |-> qubit,
     value |-> value, args |-> args, json |-> json]

\* A keyed map without keys.
EmptyJson == [k \in {} |-> PInt(0)]

NoObj == PyObj("none", <<>>, <<>>, 0, None, <<>>, EmptyJson)

ArbData(args, json) == PyObj("ArbData", <<>>, <<>>, 0, None, args, json)

Raise(exc) == [exc |-> exc, val |-> NoObj]
Return(val) == [exc |-> "ok", val |-> val]

\* _check_json: a value cbor cannot serialize is a TypeError.
CheckJson(encodable) == IF encodable THEN "ok" ELSE "TypeError"

KwargsEncodable(kwargs) == CborDumps(kwargs).exc # "ValueError"

\* ArbData.__init__(self, *args, **kwargs), called with positional and
\* keyword arguments: a keyword named like the first parameter cannot be
\* bound; each positional argument must be a buffer; the keywords must be
\* serializable.
ArbDataInit(args, kwargs) ==
    IF "self" \in DOMAIN kwargs THEN Raise("TypeError")
    ELSE IF \E i \in 1..Len(args) : ~IsBuffer(args[i]) THEN Raise("TypeError")
    ELSE IF CheckJson(KwargsEncodable(kwargs)) # "ok" THEN Raise("TypeError")
    ELSE Return(ArbData(args, kwargs))

\* The binary argument at index i, read with a probe buffer and read again
\* with a buffer of the reported size when the probe was too small.
FromRawArg(h, i) ==
    LET Arg(probe) ==
            SubSeq(IF probe.ret > ProbeSize
                   THEN dqcs_arb_get_raw(h, i, ByteArray(probe.ret)).buf
                   ELSE probe.buf,
                   1, probe.ret)
    IN  PBytes(Arg(dqcs_arb_get_raw(h, i, ByteArray(ProbeSize))))

FromRawCbor(h) ==
    LET Cbor(probe) ==
            IF probe.ret > ProbeSize
            THEN dqcs_arb_cbor_get(h, ByteArray(probe.ret)).buf
            ELSE probe.buf
    IN  Cbor(dqcs_arb_cbor_get(h, ByteArray(ProbeSize)))

\* ArbData._from_raw(handle)
ArbDataFromRaw(h) ==
    LET kwargs == CborLoads(FromRawCbor(h))
        args == [i \in 1..dqcs_arb_len(h) |-> FromRawArg(h, i - 1)]
    IN  ArbDataInit(args, kwargs)

RECURSIVE PushArgs(_, _)
PushArgs(h, args) ==
    IF args = <<>> THEN h
    ELSE PushArgs(dqcs_arb_push_raw(h, Head(args).b), Tail(args))

NoNative == [dqcs_arb_new EXCEPT !.kind = "none"]

\* ArbData._to_raw(self, handle): handle is a fresh arb object when the
\* caller passes none, else the caller's object, cleared.
ArbDataToRaw(self, handle) ==
    LET h == IF handle = NoNative THEN dqcs_arb_new ELSE dqcs_arb_clear(handle)
        Filled(cb) ==
            IF cb.exc # "ok" THEN [exc |-> cb.exc, raw |-> NoNative]
            ELSE [exc |-> "ok",
                  raw |-> PushArgs(dqcs_arb_cbor_set(h, cb.bytes), self.args)]
    IN  Filled(CborDumps(self.json))

\* The proxy ArbData._to_raw(self, handle) returns: the caller's, or a new
\* one when the caller passed None.
ToRawProxy(handle, new) == IF handle = None THEN new ELSE handle

\* _ident_re = re.compile(r'[a-zA-Z0-9_]+'); _ident_re.match(s) looks for a
\* match at the start of s: IdentPrefix is the length of the longest one.
IdentChars == (48..57) \cup (65..90) \cup {95} \cup (97..122)

RECURSIVE IdentPrefix(_)
IdentPrefix(s) ==
    IF s = <<>> \/ Head(s) \notin IdentChars THEN 0 ELSE 1 + IdentPrefix(Tail(s))

IdentReMatch(s) == IdentPrefix(s) >= 1

\* ArbCmd.__init__(self, *args, **kwargs) for positional arguments that are
\* not a lone ArbCmd: the identifiers are args[0] and args[1] as strings.
ArbCmdInit(args, kwargs) ==
    IF Len(args) < 2 THEN Raise("TypeError")
    ELSE IF ~IdentReMatch(args[1].b) THEN Raise("ValueError")
    ELSE IF ~IdentReMatch(args[2].b) THEN Raise("ValueError")
    ELSE LET Named(base) ==
                 IF base.exc # "ok" THEN base
                 ELSE Return([base.val EXCEPT !.cls = "ArbCmd", !.iface = args[1].b,
                                              !.oper = args[2].b])
         IN  Named(ArbDataInit(SubSeq(args, 3, Len(args)), kwargs))

\* ArbCmd._from_raw(handle)
ArbCmdFromRaw(h) ==
    LET Built(arg, cmd) ==
            IF arg.exc # "ok" THEN arg
            ELSE IF cmd.exc # "ok" THEN cmd
            ELSE Return([cmd.val EXCEPT !.args = arg.val.args,
                                        !.json = arg.val.json])
    IN  Built(ArbDataFromRaw(h),
              ArbCmdInit(<<PStr(h.iface), PStr(h.oper)>>, EmptyJson))

\* ArbCmd._to_raw(self)
ArbCmdToRaw(self) == ArbDataToRaw(self, dqcs_cmd_new(self.iface, self.oper))

\* Measurement.__init__(self, qubit, value, *args, **kwargs) with the qubit
\* and value setters: the qubit must be at least 1, the value is None or the
\* truth value of what was given, as an integer.
MeasurementInit(qubit, value, args, kwargs) ==
    LET Set(base) ==
            IF base.exc # "ok" THEN base
            ELSE IF qubit < 1 THEN Raise("ValueError")
            ELSE Return([base.val EXCEPT
                            !.cls = "Measurement", !.qubit = qubit,
                            !.value = IF value = None THEN None
                                      ELSE IF value = 0 THEN 0 ELSE 1])
    IN  Set(ArbDataInit(args, kwargs))

\* An assignment to the qubit property that stores whatever it is given.
MeasSetQubitUnchecked(self, qubit) == Return([self EXCEPT !.qubit = qubit])

\* Measurement.qubit setter: a qubit below 1 is a ValueError raised before
\* the field is written.
MeasSetQubit(self, qubit) ==
    IF qubit < 1 THEN Raise("ValueError")
    ELSE Return([self EXCEPT !.qubit = qubit])

\* Measurement.value setter: None stays None, anything else becomes the
\* integer of its truth value.
MeasSetValue(self, value) ==
    Return([self EXCEPT !.value = IF value = None THEN None
                                  ELSE IF value = 0 THEN 0 ELSE 1])

MeasValueToRaw(value) ==
    IF value = None THEN "UNDEFINED" ELSE IF value = 0 THEN "ZERO" ELSE "ONE"

MeasValueFromRaw(value) ==
    IF value = "UNDEFINED" THEN None ELSE IF value = "ZERO" THEN 0 ELSE 1

\* Measurement._to_raw(self)
MeasurementToRaw(self) ==
    ArbDataToRaw(self, dqcs_meas_new(self.qubit, MeasValueToRaw(self.value)))

\* Measurement._from_raw(handle)
MeasurementFromRaw(h) ==
    LET Built(arg, meas) ==
            IF arg.exc # "ok" THEN arg
            ELSE IF meas.exc # "ok" THEN meas
            ELSE Return([meas.val EXCEPT !.args = arg.val.args,
                                         !.json = arg.val.json])
    IN  Built(ArbDataFromRaw(h),
              MeasurementInit(h.qubit, MeasValueFromRaw(h.value), <<>>, EmptyJson))

\* ---------------------------------------------------------- collections
\* The positional arguments of a to_raw call: `to_raw(a, b)` passes the
\* elements, `to_raw([a, b])` passes one list.
Variadic(elems) == elems
SingleIterable(elems) == <<PList(elems)>>

\* Iterating over a Python object: a list yields its items, an ArbData (and
\* its subclasses) its binary arguments, anything else is not iterable.
Iterate(ob) ==
    IF ob.cls = "list" THEN [exc |-> "ok", items |-> ob.items]
    ELSE IF ob.cls \in {"ArbData", "ArbCmd", "Measurement"}
    THEN [exc |-> "ok", items |-> ob.args]
    ELSE [exc |-> "TypeError", items |-> <<>>]

\* The `if len(args) == 1 and not isinstance(args[0], cls): args = args[0]`
\* opening of each to_raw, followed by the start of its for loop.
ToRawElementsNoUnwrap(args, cls) == [exc |-> "ok", items |-> args]

ToRawElements(args, cls) ==
    IF Len(args) = 1 /\ args[1].cls # cls THEN Iterate(args[1])
    ELSE [exc |-> "ok", items |-> args]

\* The result of a to_raw: the exception or the native collection behind the
\* handle that is returned, and the index of the element the loop stopped at.
ToRawFail(exc, at) == [exc |-> exc, returned |-> FALSE, raw |-> <<>>, at |-> at]
ToRawDone(raw) == [exc |-> "ok", returned |-> TRUE, raw |-> raw, at |-> 0]

\* raw.dqcs_qbset_push appends a qubit to the set and rejects qubit 0 and a
\* qubit the set already holds; raw.dqcs_qbset_pop removes the first one.
dqcs_qbset_new == <<>>
dqcs_qbset_push_ok(set, qubit) ==
    qubit # 0 /\ \A i \in 1..Len(set) : set[i] # qubit
dqcs_qbset_push(set, qubit) == Append(set, qubit)
dqcs_qbset_len(set) == Len(set)
dqcs_qbset_pop(set) == [ret |-> Head(set), set |-> Tail(set)]

RECURSIVE QubitSetPushAll(_, _, _)
QubitSetPushAllSkipping(set, qubits, i) ==
    IF i > Len(qubits) THEN ToRawDone(set)
    ELSE IF ~dqcs_qbset_push_ok(set, qubits[i].n)
    THEN QubitSetPushAll(set, qubits, i + 1)
    ELSE QubitSetPushAll(dqcs_qbset_push(set, qubits[i].n), qubits, i + 1)

QubitSetPushAll(set, qubits, i) ==
    IF i > Len(qubits) THEN ToRawDone(set)
    ELSE IF ~dqcs_qbset_push_ok(set, qubits[i].n) THEN ToRawFail("RuntimeError", i)
    ELSE QubitSetPushAll(dqcs_qbset_push(set, qubits[i].n), qubits, i + 1)

\* QubitSet._to_raw(*qubits)
QubitSetToRaw(args) ==
    LET Push(qubits) ==
            IF qubits.exc # "ok" THEN ToRawFail(qubits.exc, 0)
            ELSE QubitSetPushAll(dqcs_qbset_new, qubits.items, 1)
    IN  Push(ToRawElements(args, "int"))

\* The result of a from_raw of a collection: the exception of the element
\* that could not be decoded, or the list; with it the length of the native
\* collection when the loop was left and the iterations that were completed.
FromRawFail(exc, left) ==
    [exc |-> exc, list |-> <<>>, left |-> left, steps |-> 0]
FromRawDone(list, left, steps) ==
    [exc |-> "ok", list |-> list, left |-> left, steps |-> steps]

\* One completed iteration in front of the rest of the loop.
FromRawCons(elem, rest) ==
    IF rest.exc # "ok" THEN [rest EXCEPT !.steps = @ + 1]
    ELSE FromRawDone(<<elem>> \o rest.list, rest.left, rest.steps + 1)

\* QubitSet._from_raw(handle)
RECURSIVE QubitSetFromRaw(_)
QubitSetFromRaw(set) ==
    IF dqcs_qbset_len(set) > 0
    THEN LET Popped(p) == FromRawCons(p.ret, QubitSetFromRaw(p.set))
         IN  Popped(dqcs_qbset_pop(set))
    ELSE FromRawDone(<<>>, dqcs_qbset_len(set), 0)

\* raw.dqcs_cq_push appends a command to the queue; the cmd getters read the
\* first command of a queue and raw.dqcs_cq_next drops it.
dqcs_cq_new == <<>>
dqcs_cq_push(queue, cmd) == Append(queue, cmd)
dqcs_cq_len(queue) == Len(queue)
dqcs_cq_next(queue) == Tail(queue)

RECURSIVE ArbCmdQueuePushAll(_, _, _)
ArbCmdQueuePushAll(queue, cmds, i) ==
    IF i > Len(cmds) THEN ToRawDone(queue)
    ELSE IF cmds[i].cls # "ArbCmd" THEN ToRawFail("TypeError", i)
    ELSE LET Push(a) ==
                 IF a.exc # "ok" THEN ToRawFail(a.exc, i)
                 ELSE ArbCmdQueuePushAll(dqcs_cq_push(queue, a.raw), cmds, i + 1)
         IN  Push(ArbCmdToRaw(cmds[i]))

\* ArbCmdQueue._to_raw(*cmds)
ArbCmdQueueToRaw(args) ==
    LET Push(cmds) ==
            IF cmds.exc # "ok" THEN ToRawFail(cmds.exc, 0)
            ELSE ArbCmdQueuePushAll(dqcs_cq_new, cmds.items, 1)
    IN  Push(ToRawElements(args, "ArbCmd"))

\* GateStreamSource.allocate(self, num_qubits=None, *cmds) up to the native
\* call that sends the request: the tuple of the variadic arguments is passed
\* to ArbCmdQueue._to_raw as its one argument, and the request is for one
\* qubit when num_qubits is None.
Allocate(num_qubits, cmds) ==
    LET Sent(q) ==
            [exc |-> q.exc, returned |-> q.returned, raw |-> q.raw, at |-> q.at,
             sent |-> IF q.exc # "ok" THEN 0
                      ELSE IF num_qubits = None THEN 1 ELSE num_qubits]
    IN  Sent(ArbCmdQueueToRaw(<<PList(cmds)>>))

\* An ArbCmdQueue._from_raw that returns after the first command.
ArbCmdQueueFromRawFirst(queue) ==
    IF dqcs_cq_len(queue) = 0 THEN FromRawDone(<<>>, dqcs_cq_len(queue), 0)
    ELSE LET Cons(cmd) ==
                 IF cmd.exc # "ok" THEN FromRawFail(cmd.exc, dqcs_cq_len(queue))
                 ELSE FromRawDone(<<cmd.val>>, dqcs_cq_len(dqcs_cq_next(queue)), 1)
         IN  Cons(ArbCmdFromRaw(Head(queue)))

\* ArbCmdQueue._from_raw(handle)
RECURSIVE ArbCmdQueueFromRaw(_)
ArbCmdQueueFromRaw(queue) ==
    IF dqcs_cq_len(queue) = 0 THEN FromRawDone(<<>>, dqcs_cq_len(queue), 0)
    ELSE LET Cons(cmd) ==
                 IF cmd.exc # "ok" THEN FromRawFail(cmd.exc, dqcs_cq_len(queue))
                 ELSE FromRawCons(cmd.val, ArbCmdQueueFromRaw(dqcs_cq_next(queue)))
         IN  Cons(ArbCmdFromRaw(Head(queue)))

\* raw.dqcs_mset_set stores a measurement under its qubit, replacing the one
\* stored there; raw.dqcs_mset_take_any removes some measurement of the set.
dqcs_mset_new == {}
dqcs_mset_set(set, meas) == {m \in set : m.qubit # meas.qubit} \cup {meas}
dqcs_mset_len(set) == Cardinality(set)

RECURSIVE MeasurementSetSetAll(_, _, _, _)
MeasurementSetSetAllUnchecked(set, qubits, measurements, i) ==
    IF i > Len(measurements) THEN ToRawDone(set)
    ELSE IF measurements[i].cls # "Measurement" THEN ToRawFail("TypeError", i)
    ELSE LET Set(m) ==
                 IF m.exc # "ok" THEN ToRawFail(m.exc, i)
                 ELSE MeasurementSetSetAll(dqcs_mset_set(set, m.raw),
                                           qubits \cup {measurements[i].qubit},
                                           measurements, i + 1)
         IN  Set(MeasurementToRaw(measurements[i]))

MeasurementSetSetAll(set, qubits, measurements, i) ==
    IF i > Len(measurements) THEN ToRawDone(set)
    ELSE IF measurements[i].cls # "Measurement" THEN ToRawFail("TypeError", i)
    ELSE IF measurements[i].qubit \in qubits THEN ToRawFail("ValueError", i)
    ELSE LET Set(m) ==
                 IF m.exc # "ok" THEN ToRawFail(m.exc, i)
                 ELSE MeasurementSetSetAll(dqcs_mset_set(set, m.raw),
                                           qubits \cup {measurements[i].qubit},
                                           measurements, i + 1)
         IN  Set(MeasurementToRaw(measurements[i]))

\* MeasurementSet._to_raw(*measurements)
MeasurementSetToRaw(args) ==
    LET Set(measurements) ==
            IF measurements.exc # "ok" THEN ToRawFail(measurements.exc, 0)
            ELSE MeasurementSetSetAll(dqcs_mset_new, {}, measurements.items, 1)
    IN  Set(ToRawElements(args, "Measurement"))

\* list.sort(key=lambda x: x.qubit): a stable sort by qubit.
InsertByQubit(m, sorted) ==
    LET before == SelectSeq(sorted, LAMBDA s : s.qubit <= m.qubit)
        after == SelectSeq(sorted, LAMBDA s : s.qubit > m.qubit)
    IN  before \o <<m>> \o after

RECURSIVE SortByQubit(_)
SortByQubit(list) ==
    IF list = <<>> THEN <<>>
    ELSE InsertByQubit(list[Len(list)], SortByQubit(SubSeq(list, 1, Len(list) - 1)))

RECURSIVE MeasurementSetDrain(_)
MeasurementSetDrain(taken) ==
    IF taken = <<>> THEN FromRawDone(<<>>, Len(taken), 0)
    ELSE LET Cons(meas) ==
                 IF meas.exc # "ok" THEN FromRawFail(meas.exc, Len(Tail(taken)))
                 ELSE FromRawCons(meas.val, MeasurementSetDrain(Tail(taken)))
         IN  Cons(MeasurementFromRaw(Head(taken)))

\* MeasurementSet._from_raw(handle), for the order `taken` in which
\* raw.dqcs_mset_take_any hands out the measurements of the set.
MeasurementSetFromRawUnsorted(taken) == MeasurementSetDrain(taken)

MeasurementSetFromRaw(taken) ==
    LET Sorted(measurements) ==
            IF measurements.exc # "ok" THEN measurements
            ELSE [measurements EXCEPT !.list = SortByQubit(@)]
    IN  Sorted(MeasurementSetDrain(taken))

\* The orders in which a native set can hand out its elements.
TakeOrders(set) ==
    {s \in [1..Cardinality(set) -> set] : \A i, j \in 1..Cardinality(set) :
        i # j => s[i] # s[j]}

\* ------------------------------------------------- data types: the calls
\* The values and argument lists the codecs are applied to.
Fill(n, byte) == [i \in 1..n |-> byte]
Blob(n) == PBytes([i \in 1..n |-> i % 256])

BlobLens == {0, ProbeSize - 1, ProbeSize, ProbeSize + 1}

SeqsUpTo(S, n) == UNION {[1..k -> S] : k \in 0..n}

\* A text value of n bytes under the key "k" makes a map of n + 5 bytes on
\* the wire (n + 6 from 256 bytes of text on).
JsonValues ==
    {PInt(3), PList(<<PInt(1), PBytes(<<2>>)>>)}
    \cup {PStr(Fill(n, 97)) : n \in (ProbeSize - 6)..(ProbeSize - 4)}

Jsons ==
    {j \in UNION {[K -> JsonValues] : K \in SUBSET JsonKeys} :
        "self" \in DOMAIN j => j["self"] = PInt(3)}

ArbDatas ==
    {ArbData(a, j) : a \in SeqsUpTo({Blob(n) : n \in BlobLens}, MaxArgs), j \in Jsons}

SmallDatas ==
    {ArbData(<<>>, EmptyJson), ArbData(<<Blob(1)>>, [k \in {"k"} |-> PInt(3)]),
     ArbData(<<>>, [k \in {"self"} |-> PInt(3)])}

BigData ==
    ArbData(<<Blob(ProbeSize + 1)>>, [k \in {"k"} |-> PStr(Fill(ProbeSize - 4, 97))])

\* Identifier strings: "a", "b_" are valid; the strings over 'a', '_' and '!'
\* are what the ArbCmd constructor is tried with.
ValidIdents == {<<97>>, <<98, 95>>}
IdentInputs == SeqsUpTo({97, 95, 33}, MaxIdent)

AsCmd(iface, oper, data) ==
    [data EXCEPT !.cls = "ArbCmd", !.iface = iface, !.oper = oper]

AsMeasurement(qubit, value, data) ==
    [data EXCEPT !.cls = "Measurement", !.qubit = qubit, !.value = value]

ArbCmds ==
    {AsCmd(i, o, d) : i \in ValidIdents, o \in ValidIdents,
                      d \in SmallDatas \cup {BigData}}

Measurements ==
    {AsMeasurement(q, v, d) : q \in 1..MaxQubit, v \in {0, 1, None},
                              d \in SmallDatas \cup {BigData}}

QueueElements ==
    {AsCmd(<<97>>, o, d) : o \in ValidIdents, d \in {ArbData(<<>>, EmptyJson)}}
    \cup {AsCmd(<<97>>, <<97>>, ArbData(<<>>, [k \in {"self"} |-> PInt(3)]))}
    \cup {PInt(0), ArbData(<<Blob(1)>>, EmptyJson)}

SetElements ==
    {AsMeasurement(q, v, ArbData(<<>>, EmptyJson)) : q \in 1..MaxQubit, v \in {0, 1}}
    \cup {AsMeasurement(1, None, ArbData(<<>>, [k \in {"self"} |-> PInt(3)]))}
    \cup {PInt(0)}

\* The identifiers of the commands that are routed by name: "a", "b", "a_b",
\* "b_a" and "!".
RouteIdents == {<<97>>, <<98>>, <<97, 95, 98>>, <<98, 95, 97>>, <<33>>}

\* The character of a byte of an identifier, and the string of its bytes.
Chr(b) ==
    CASE b = 95 -> "_"
      [] b = 97 -> "a"
      [] b = 98 -> "b"
      [] OTHER -> "!"
Str(bytes) == [i \in DOMAIN bytes |-> Chr(bytes[i])]

\* What the target of an encoding into an existing handle holds before.
TargetDatas ==
    {ArbData(<<Blob(1), Blob(0)>>, [k \in {"k"} |-> PInt(3)]),
     ArbData(<<>>, [k \in {"k", "self"} |-> PInt(3)])}

\* The commands allocate is called with: ArbCmd values only.
AllocCmds == {AsCmd(<<97>>, o, ArbData(<<>>, EmptyJson)) : o \in ValidIdents}
AllocNums == {None, MaxQubit}

CallForms == {"variadic", "iterable"}
CallArgs(form, elems) ==
    IF form = "variadic" THEN Variadic(elems) ELSE SingleIterable(elems)

NoData ==
    [kind |-> "none", op |-> "none", form |-> "none", obj |-> NoObj,
     call |-> <<>>, elems |-> <<>>, exc |-> "ok", returned |-> FALSE,
     native |-> NoNative, raw |-> <<>>, at |-> 0, list |-> <<>>, out |-> NoObj,
     taken |-> <<>>, left |-> 0, steps |-> 0, n |-> 0, sent |-> 0,
     prev |-> NoNative, target |-> None, handle |-> None]

ObjectInput(obj) ==
    [NoData EXCEPT !.kind = obj.cls, !.op = "input", !.form = "object",
                   !.obj = obj]

CallInput(kind, form, elems) ==
    [NoData EXCEPT !.kind = kind, !.op = "input", !.form = form,
                   !.call = CallArgs(form, elems), !.elems = elems]

DataInputs ==
    {ObjectInput(o) : o \in ArbDatas \cup ArbCmds \cup Measurements}
    \cup {CallInput("ArbCmd()", "variadic", <<PStr(i), PStr(o)>>) :
            i \in IdentInputs, o \in IdentInputs}
    \cup {CallInput("ArbCmd()", "variadic", <<PStr(i)>>) : i \in ValidIdents}
    \cup {CallInput("QubitSet", f, [i \in DOMAIN q |-> PInt(q[i])]) :
            f \in CallForms, q \in SeqsUpTo(0..MaxQubit, MaxSeq)}
    \cup {CallInput("ArbCmdQueue", f, q) :
            f \in CallForms, q \in SeqsUpTo(QueueElements, MaxSeq)}
    \cup {CallInput("MeasurementSet", f, q) :
            f \in CallForms, q \in SeqsUpTo(SetElements, MaxSeq)}
    \cup {[ObjectInput(v) EXCEPT !.kind = "ArbData.into", !.target = 1,
                                  !.prev = ArbDataToRaw(w, NoNative).raw] :
            v \in SmallDatas \cup {BigData}, w \in TargetDatas}
    \cup {CallInput("route", "variadic", <<PStr(i1), PStr(o1), PStr(i2), PStr(o2)>>) :
            i1 \in RouteIdents, o1 \in RouteIdents,
            i2 \in RouteIdents, o2 \in RouteIdents}
    \cup {[CallInput("allocate", f, q) EXCEPT !.n = n] :
            f \in CallForms, q \in SeqsUpTo(AllocCmds, MaxSeq), n \in AllocNums}

Encoded(r) ==
    [dlast EXCEPT !.op = "to_raw", !.exc = r.exc, !.returned = r.returned,
                  !.raw = r.raw, !.at = r.at]

EncodedObject(r) ==
    [dlast EXCEPT !.op = "to_raw", !.exc = r.exc, !.returned = (r.exc = "ok"),
                  !.native = r.raw]

DecodedObject(r) ==
    [dlast EXCEPT !.op = "from_raw", !.exc = r.exc, !.out = r.val]

Decoded(r) ==
    [dlast EXCEPT !.op = "from_raw", !.exc = r.exc, !.list = r.list,
                  !.left = r.left, !.steps = r.steps]

DFrame == UNCHANGED <<hvars, pvars, rvars, heap, names, alast, mlast, launch, own>>

Pending(kind) == dlast.kind = kind /\ dlast.op = "input"
Held(kind) == dlast.kind = kind /\ dlast.op = "to_raw" /\ dlast.returned

\* handle = v._to_raw() for an ArbData v
EncodeArbData ==
    /\ Pending("ArbData")
    /\ dlast' = EncodedObject(ArbDataToRaw(dlast.obj, NoNative))
    /\ DFrame

\* h = v._to_raw(target) for an ArbData v and the proxy of a native object
\* that holds something already
EncodeArbDataInto ==
    /\ Pending("ArbData.into")
    /\ dlast' = [EncodedObject(ArbDataToRaw(dlast.obj, dlast.prev))
                    EXCEPT !.handle = ToRawProxy(dlast.target, dlast.target + 1)]
    /\ DFrame

\* ArbData._from_raw(handle)
DecodeArbData ==
    /\ Held("ArbData") \/ Held("ArbData.into")
    /\ dlast' = DecodedObject(ArbDataFromRaw(dlast.native))
    /\ DFrame

EncodeArbCmd ==
    /\ Pending("ArbCmd")
    /\ dlast' = EncodedObject(ArbCmdToRaw(dlast.obj))
    /\ DFrame

DecodeArbCmd ==
    /\ Held("ArbCmd")
    /\ dlast' = DecodedObject(ArbCmdFromRaw(dlast.native))
    /\ DFrame

EncodeMeasurement ==
    /\ Pending("Measurement")
    /\ dlast' = EncodedObject(MeasurementToRaw(dlast.obj))
    /\ DFrame

DecodeMeasurement ==
    /\ Held("Measurement")
    /\ dlast' = DecodedObject(MeasurementFromRaw(dlast.native))
    /\ DFrame

\* ArbCmd(iface, oper) and ArbCmd(iface)
NewArbCmd ==
    /\ Pending("ArbCmd()")
    /\ LET Made(r) == [dlast EXCEPT !.op = "new", !.exc = r.exc, !.out = r.val]
       IN  dlast' = Made(ArbCmdInit(dlast.call, EmptyJson))
    /\ DFrame

EncodeQubitSet ==
    /\ Pending("QubitSet")
    /\ dlast' = Encoded(QubitSetToRaw(dlast.call))
    /\ DFrame

DecodeQubitSet ==
    /\ Held("QubitSet")
    /\ dlast' = Decoded(QubitSetFromRaw(dlast.raw))
    /\ DFrame

EncodeArbCmdQueue ==
    /\ Pending("ArbCmdQueue")
    /\ dlast' = Encoded(ArbCmdQueueToRaw(dlast.call))
    /\ DFrame

DecodeArbCmdQueue ==
    /\ Held("ArbCmdQueue")
    /\ dlast' = Decoded(ArbCmdQueueFromRaw(dlast.raw))
    /\ DFrame

EncodeMeasurementSet ==
    /\ Pending("MeasurementSet")
    /\ dlast' = Encoded(MeasurementSetToRaw(dlast.call))
    /\ DFrame

DecodeMeasurementSet ==
    /\ Held("MeasurementSet")
    /\ \E taken \in TakeOrders(dlast.raw) :
          dlast' = [Decoded(MeasurementSetFromRaw(taken)) EXCEPT !.taken = taken]
    /\ DFrame

\* self.allocate(n, c1, ..., ck) or self.allocate(n, [c1, ..., ck])
CallAllocate ==
    /\ Pending("allocate")
    /\ LET Sent(r) ==
               [dlast EXCEPT !.op = "sent", !.exc = r.exc, !.returned = r.returned,
                             !.raw = r.raw, !.at = r.at, !.sent = r.sent]
       IN  dlast' = Sent(Allocate(dlast.n, dlast.call))
    /\ DFrame

\* Two commands ArbCmd(i1, o1) and ArbCmd(i2, o2) from the host and the
\* names of the handlers _route_converted_arb looks up for them.
RouteNames ==
    /\ Pending("route")
    /\ LET Name(c) == HandlerName("host", Str(c.iface), Str(c.oper))
           Named(c1, c2) ==
               [dlast EXCEPT
                   !.op = "routed",
                   !.exc = IF c1.exc # "ok" THEN c1.exc ELSE c2.exc,
                   !.list = IF c1.exc = "ok" /\ c2.exc = "ok"
                            THEN <<Name(c1.val), Name(c2.val)>> ELSE <<>>]
       IN  dlast' = Named(ArbCmdInit(SubSeq(dlast.call, 1, 2), EmptyJson),
                          ArbCmdInit(SubSeq(dlast.call, 3, 4), EmptyJson))
    /\ DFrame

\* ------------------------------------------------------ ArbData objects
\* The lists and dicts behind the _args and _json fields of ArbData objects,
\* by address, so that two objects can share one of them.  A value stored in
\* a list or dict is an immutable value or a reference to a list.
MaxLaunches == 4
MaxOwnIds == 7
MaxAddr == 7

Addrs == 1..MaxAddr

PAbsent == PyVal("absent", 0, <<>>, <<>>)

FreeCell == [kind |-> "free", items |-> <<>>, map |-> [k \in JsonKeys |-> PAbsent]]
ListCell(items) == [FreeCell EXCEPT !.kind = "list", !.items = items]
DictCell(map) == [FreeCell EXCEPT !.kind = "dict", !.map = map]

FreeAddrs(h) == {a \in Addrs : h[a].kind = "free"}
NewAddr(h) == CHOOSE a \in FreeAddrs(h) : \A b \in FreeAddrs(h) : a <= b
Alloc(h, cell) == [heap |-> [h EXCEPT ![NewAddr(h)] = cell], addr |-> NewAddr(h)]

\* An ArbData object: the addresses of its _args list and its _json dict.
NoArb == [made |-> FALSE, args |-> 0, json |-> 0]
Arb(args, json) == [made |-> TRUE, args |-> args, json |-> json]

Names == {"x", "y"}

\* The cells an operation leaves referenced from a named object, in the order
\* x._args, x._json, the lists in x._json, then the same for y; a cell that
\* two objects share is listed once.
RECURSIVE Distinct(_)
Distinct(s) ==
    IF s = <<>> THEN <<>>
    ELSE LET front == Distinct(SubSeq(s, 1, Len(s) - 1))
         IN  IF \E i \in 1..Len(front) : front[i] = s[Len(s)]
             THEN front ELSE Append(front, s[Len(s)])

CellsOf(h, o) ==
    IF ~o.made THEN <<>>
    ELSE <<o.args, o.json>>
         \o [i \in 1..Len(SelectSeq(JsonKeyOrder, LAMBDA k : h[o.json].map[k].cls = "ref"))
                |-> h[o.json].map[SelectSeq(JsonKeyOrder,
                                     LAMBDA k : h[o.json].map[k].cls = "ref")[i]].n]

Reachable(h, ns) == Distinct(CellsOf(h, ns["x"]) \o CellsOf(h, ns["y"]))

\* Addresses carry no meaning beyond identity: after each operation what
\* nothing refers to is reclaimed and the live cells are numbered in the
\* order of Reachable.
Moved(cells, a) == CHOOSE i \in 1..Len(cells) : cells[i] = a

MovedValue(cells, v) == IF v.cls = "ref" THEN PRef(Moved(cells, v.n)) ELSE v

Collect(h, ns) ==
    LET cells == Reachable(h, ns)
    IN  [a \in Addrs |->
            IF a <= Len(cells)
            THEN [h[cells[a]] EXCEPT
                    !.map = [k \in JsonKeys |-> MovedValue(cells, h[cells[a]].map[k])]]
            ELSE FreeCell]

Rebound(h, ns) ==
    LET cells == Reachable(h, ns)
    IN  [n \in Names |->
            IF ns[n].made
            THEN Arb(Moved(cells, ns[n].args), Moved(cells, ns[n].json))
            ELSE NoArb]

\* The value behind a stored value: a reference stands for the list as it
\* is now.
Tree(h, v) == IF v.cls = "ref" THEN PList(h[v.n].items) ELSE v

TreeJson(h, a) ==
    [k \in {key \in JsonKeys : h[a].map[key] # PAbsent} |-> Tree(h, h[a].map[k])]

ValueOf(h, o) ==
    IF o.made THEN ArbData(h[o.args].items, TreeJson(h, o.json)) ELSE NoObj

\* A list display in the caller's code makes a new list; other values are
\* passed as they are.
Store(h, v) ==
    IF v.cls = "list"
    THEN LET a == Alloc(h, ListCell(v.items))
         IN  [heap |-> a.heap, val |-> PRef(a.addr)]
    ELSE [heap |-> h, val |-> v]

\* The result of an operation on ArbData objects.
ArbFail(h, exc) == [exc |-> exc, heap |-> h, obj |-> NoArb, ret |-> PAbsent]
ArbDone(h, obj) == [exc |-> "ok", heap |-> h, obj |-> obj, ret |-> PAbsent]

\* A key of __getitem__, __setitem__ and __delitem__: a string or an index.
KeyStr(k) == [str |-> TRUE, k |-> k, i |-> 0]
KeyIdx(i) == [str |-> FALSE, k |-> "", i |-> i]

\* ArbData.__init__(self, *args, **kwargs), not the copy of an ArbData: the
\* kwargs dict is new, the values in it are the caller's objects.
ArbDataNew(h, args, kwargs) ==
    IF (\E i \in 1..Len(args) : ~IsBuffer(args[i]))
       \/ CheckJson(KwargsEncodable([k \in DOMAIN kwargs |-> Tree(h, kwargs[k])])) # "ok"
    THEN ArbFail(h, "TypeError")
    ELSE LET a == Alloc(h, ListCell(args))
             j == Alloc(a.heap, DictCell([k \in JsonKeys |->
                        IF k \in DOMAIN kwargs THEN kwargs[k] ELSE PAbsent]))
         IN  ArbDone(j.heap, Arb(a.addr, j.addr))

\* copy.deepcopy of a dict: a new dict whose list values are new lists.
RECURSIVE DeepCopyValues(_, _, _, _)
DeepCopyValues(h, src, dst, keys) ==
    IF keys = <<>> THEN h
    ELSE LET v == h[src].map[Head(keys)]
         IN  IF v.cls = "ref"
             THEN LET a == Alloc(h, ListCell(h[v.n].items))
                  IN  DeepCopyValues([a.heap EXCEPT ![dst].map[Head(keys)] = PRef(a.addr)],
                                     src, dst, Tail(keys))
             ELSE DeepCopyValues([h EXCEPT ![dst].map[Head(keys)] = v],
                                 src, dst, Tail(keys))

\* ArbData.__init__(self, other) for an ArbData other.
ArbDataCopyShallow(h, other) == ArbDone(h, other)

ArbDataCopy(h, other) ==
    LET a == Alloc(h, ListCell(h[other.args].items))
        j == Alloc(a.heap, DictCell(FreeCell.map))
    IN  ArbDone(DeepCopyValues(j.heap, other.json, j.addr, JsonKeyOrder),
                Arb(a.addr, j.addr))

\* ArbData.__getitem__(self, key)
ArbGetItem(h, self, key) ==
    IF key.str
    THEN IF h[self.json].map[key.k] = PAbsent THEN ArbFail(h, "KeyError")
         ELSE [ArbDone(h, self) EXCEPT !.ret = h[self.json].map[key.k]]
    ELSE IF key.i >= Len(h[self.args].items) THEN ArbFail(h, "IndexError")
         ELSE [ArbDone(h, self) EXCEPT !.ret = h[self.args].items[key.i + 1]]

\* ArbData.__setitem__(self, key, value)
ArbSetItemUnchecked(h, self, key, value) ==
    IF key.str
    THEN IF CheckJson(CborEncodable(Tree(h, value))) # "ok"
         THEN ArbFail([h EXCEPT ![self.json].map[key.k] = value], "TypeError")
         ELSE ArbDone([h EXCEPT ![self.json].map[key.k] = value], self)
    ELSE IF key.i >= Len(h[self.args].items) THEN ArbFail(h, "IndexError")
         ELSE ArbDone([h EXCEPT ![self.args].items[key.i + 1] = value], self)

ArbSetItem(h, self, key, value) ==
    IF key.str
    THEN IF CheckJson(CborEncodable(Tree(h, value))) # "ok"
         THEN ArbFail(h, "TypeError")
         ELSE ArbDone([h EXCEPT ![self.json].map[key.k] = value], self)
    ELSE IF ~IsBuffer(value) THEN ArbFail(h, "TypeError")
         ELSE IF key.i >= Len(h[self.args].items) THEN ArbFail(h, "IndexError")
         ELSE ArbDone([h EXCEPT ![self.args].items[key.i + 1] = value], self)

RemoveAt(s, i) == SubSeq(s, 1, i - 1) \o SubSeq(s, i + 1, Len(s))
InsertAt(s, i, v) == SubSeq(s, 1, i - 1) \o <<v>> \o SubSeq(s, i, Len(s))

\* ArbData.__delitem__(self, key)
ArbDelItem(h, self, key) ==
    IF key.str
    THEN IF h[self.json].map[key.k] = PAbsent THEN ArbFail(h, "KeyError")
         ELSE ArbDone([h EXCEPT ![self.json].map[key.k] = PAbsent], self)
    ELSE IF key.i >= Len(h[self.args].items) THEN ArbFail(h, "IndexError")
         ELSE ArbDone([h EXCEPT ![self.args].items = RemoveAt(@, key.i + 1)], self)

\* ArbData.append(self, value)
ArbAppend(h, self, value) ==
    IF ~IsBuffer(value) THEN ArbFail(h, "TypeError")
    ELSE ArbDone([h EXCEPT ![self.args].items = Append(@, value)], self)

\* ArbData.insert(self, index, value): list.insert puts the value at the end
\* when the index is past it.
ArbInsert(h, self, index, value) ==
    IF ~IsBuffer(value) THEN ArbFail(h, "TypeError")
    ELSE ArbDone([h EXCEPT ![self.args].items =
                     InsertAt(@, IF index > Len(@) THEN Len(@) + 1 ELSE index + 1, value)],
                 self)

\* ArbData.clear(self): clear_args and clear_json bind new, empty containers.
ArbClear(h, self) ==
    LET a == Alloc(h, ListCell(<<>>))
        j == Alloc(a.heap, DictCell(FreeCell.map))
    IN  ArbDone(j.heap, Arb(a.addr, j.addr))

\* list.append on the list a read of self[key] returned.
ListAppend(h, ref, value) == [h EXCEPT ![ref.n].items = Append(@, value)]

\* list.__setitem__ on the list a read of self[key] returned.
ListSetItem(h, ref, i, value) == [h EXCEPT ![ref.n].items[i + 1] = value]

\* ---------------------------------------------- ArbData objects: calls
\* The values the caller passes: binary arguments (a str is no buffer), map
\* values (an object() has no encoding; a list display makes a new list) and
\* what the caller puts into a list it read from an object.
ArgValues == {PBytes(<<1>>), PStr(<<97>>)}
MapValues == {PInt(5), PObject, PList(<<>>), PList(<<PObject>>)}
ListValues == {PInt(7), PObject}
NoKwargs == [k \in {} |-> PAbsent]
KwargsChoices == {NoKwargs} \cup {[k \in {"k"} |-> v] : v \in MapValues}
ArgsChoices == SeqsUpTo(ArgValues, 1)
Keys == {KeyStr("k"), KeyIdx(0)}

NoAEvent ==
    [op |-> "none", target |-> "x", bad |-> FALSE, exc |-> "ok"]

\* No Measurement exists, no plugin instance was launched and no route
\* callback was delivered.
NoMeasEvent ==
    [op |-> "none", made |-> FALSE, obj |-> NoObj, qubit |-> 0, value |-> None,
     exc |-> "ok"]

MFixed == mlast = NoMeasEvent

NoLaunch ==
    [init |-> TRUE, started |-> FALSE, op |-> "none", exc |-> "ok",
     msg |-> "", runs |-> 0, starts |-> 0, done |-> 0]

LFixed == launch = NoLaunch

OwnIds == 1..MaxOwnIds

\* The engine's registry as this layer sees it: the live ids, the next id,
\* per id the native deletes this layer issued, and the ids that a proxy
\* which was not finalized yet still refers to.
NoReg ==
    [live |-> {}, next |-> 1, dels |-> [i \in OwnIds |-> 0], held |-> {}]

NoOwn ==
    [route |-> "none", custom |-> FALSE, path |-> "ok", args |-> <<>>,
     ret |-> None, exc |-> "ok", reg |-> NoReg]

OFixed == own = NoOwn

XFixed == MFixed /\ LFixed /\ OFixed

AFixed ==
    /\ heap = [a \in Addrs |-> FreeCell]
    /\ names = [n \in Names |-> NoArb]
    /\ alast = NoAEvent
    /\ XFixed

DFixed == dlast = NoData /\ AFixed

AFrame == UNCHANGED <<hvars, pvars, rvars, dlast, mlast, launch, own>>

\* The names and the heap after an operation: a name is bound when the
\* statement that binds it succeeded; what nothing refers to is reclaimed.
After(op, target, bad, r, bind) ==
    LET ns == IF bind /\ r.exc = "ok" THEN [names EXCEPT ![target] = r.obj] ELSE names
    IN  /\ names' = Rebound(r.heap, ns)
        /\ heap' = Collect(r.heap, ns)
        /\ alast' = [op |-> op, target |-> target, bad |-> bad, exc |-> r.exc]

Room(n) == Cardinality(FreeAddrs(heap)) >= n

BadArg(v) == ~IsBuffer(v)
BadValue(h, v) == ~CborEncodable(Tree(h, v))

\* x = ArbData(*args, **kwargs)
New(args, kwargs) ==
    /\ Room(3)
    /\ LET st == IF "k" \in DOMAIN kwargs THEN Store(heap, kwargs["k"])
                 ELSE [heap |-> heap, val |-> PAbsent]
           kw == [k \in DOMAIN kwargs |-> st.val]
       IN  After("new", "x",
                 (\E i \in DOMAIN args : BadArg(args[i]))
                    \/ (\E k \in DOMAIN kw : BadValue(st.heap, kw[k])),
                 ArbDataNew(st.heap, args, kw), TRUE)
    /\ AFrame

\* y = ArbData(x)
Copy ==
    /\ names["x"].made
    /\ Room(4)
    /\ After("copy", "y", FALSE, ArbDataCopy(heap, names["x"]), TRUE)
    /\ AFrame

\* n[key] = value
SetItem(n, key, value) ==
    /\ names[n].made
    /\ Room(1)
    /\ LET st == Store(heap, value)
       IN  After("setitem", n,
                 IF key.str THEN BadValue(st.heap, st.val) ELSE BadArg(st.val),
                 ArbSetItem(st.heap, names[n], key, st.val), FALSE)
    /\ AFrame

\* del n[key]
DelItem(n, key) ==
    /\ names[n].made
    /\ After("delitem", n, FALSE, ArbDelItem(heap, names[n], key), FALSE)
    /\ AFrame

\* n.append(value)
AppendArg(n, value) ==
    /\ names[n].made
    /\ Len(heap[names[n].args].items) < MaxItems
    /\ After("append", n, BadArg(value), ArbAppend(heap, names[n], value), FALSE)
    /\ AFrame

\* n.insert(index, value)
InsertArg(n, index, value) ==
    /\ names[n].made
    /\ Len(heap[names[n].args].items) < MaxItems
    /\ After("insert", n, BadArg(value), ArbInsert(heap, names[n], index, value), FALSE)
    /\ AFrame

\* n.clear()
Clear(n) ==
    /\ names[n].made
    /\ Room(2)
    /\ After("clear", n, FALSE, ArbClear(heap, names[n]), TRUE)
    /\ AFrame

\* n[key].append(value) and n[key][0] = value for a key that holds a list
MutateRead(n, k, how, value) ==
    /\ names[n].made
    /\ LET r == ArbGetItem(heap, names[n], KeyStr(k))
       IN  /\ r.exc = "ok"
           /\ r.ret.cls = "ref"
           /\ IF how = "append" THEN Len(heap[r.ret.n].items) < MaxItems
              ELSE Len(heap[r.ret.n].items) >= 1
           /\ After(IF how = "append" THEN "list.append" ELSE "list.setitem", n, FALSE,
                    ArbDone(IF how = "append" THEN ListAppend(heap, r.ret, value)
                            ELSE ListSetItem(heap, r.ret, 0, value), names[n]),
                    FALSE)
    /\ AFrame

\* n._to_raw()
Send(n) ==
    /\ names[n].made
    /\ LET r == ArbDataToRaw(ValueOf(heap, names[n]), NoNative)
       IN  After("to_raw", n, FALSE, [ArbDone(heap, names[n]) EXCEPT !.exc = r.exc], FALSE)
    /\ AFrame

\* ------------------------------------------- route callbacks: handles
\* The route callbacks that receive native handles.
OwnRoutes ==
    {"initialize", "host_arb", "upstream_arb", "run", "allocate", "free", "gate"}

\* How many handle arguments a callback receives besides the state token.
RouteArity(route) == IF route = "allocate" THEN 2 ELSE 1

\* Per handle argument, whether the callback wraps it in a Handle proxy:
\* all do, except that _route_gate wraps the gate only for a custom gate.
RouteWraps(route, custom) ==
    [k \in 1..RouteArity(route) |-> route = "gate" => custom]

\* _route_gate asks the engine for the target, control and measure sets
\* of the gate and wraps each of the three new handles.
RouteDerived(route) == IF route = "gate" THEN 3 ELSE 0

\* The callbacks that hand a native handle back to the engine.
RouteReturnsHandle(route) == route \in {"host_arb", "upstream_arb", "run", "gate"}

\* The engine makes a new native object.
RegNew(reg) ==
    [reg EXCEPT !.live = @ \cup {reg.next}, !.next = @ + 1]

\* A proxy with _handle h runs out of references: Handle.__del__.
RegFinalize(reg, h) ==
    LET Del(d) ==
            [reg EXCEPT !.live = IF d.removed THEN @ \ {h} ELSE @,
                        !.dels = IF d.ndel = 1
                                 THEN [@ EXCEPT ![h] = @ + 1] ELSE @]
    IN  Del(HandleDel(h, h \in reg.live))

\* A proxy with _handle h stays referenced by the frames of the exception
\* that propagates out of the callback.
RegKeep(reg, h) == [reg EXCEPT !.held = @ \cup {h}]

\* X._from_raw(Handle(h)): the temporary proxy is the argument of the call
\* and is finalized when it returns; when it raises, the proxy goes with
\* the exception, which is dropped before or after the callback returned.
FromRawTemp(reg, h, raises, late) ==
    IF raises /\ late THEN RegKeep(reg, h) ELSE RegFinalize(reg, h)

\* The decoding of the derived sets and of the wrapped arguments in the
\* order of the source, up to the one that raises (failAt, 0 for none).
RECURSIVE DecodeAll(_, _, _, _, _)
DecodeAll(reg, hs, k, failAt, late) ==
    IF k > Len(hs) \/ (failAt # 0 /\ k > failAt) THEN reg
    ELSE DecodeAll(FromRawTemp(reg, hs[k], k = failAt, late), hs, k + 1,
                   failAt, late)

\* x._to_raw().take(): a new native object under a temporary proxy, whose
\* ownership is taken before the proxy is finalized: [reg, ret].
ReturnTaken(reg) ==
    LET Fin(made, t) == [reg |-> RegFinalize(made, t.handle), ret |-> t.val]
    IN  Fin(RegNew(reg), HandleTake(reg.next))

Seq1(a, n) == [i \in 1..n |-> a + i - 1]

\* The handles a callback wraps, in the order it wraps them: the derived
\* sets of a gate come before the gate itself.
Wrapped(route, custom, first) ==
    LET args == Seq1(first, RouteArity(route))
        wraps == RouteWraps(route, custom)
    IN  IF route = "gate"
        THEN Seq1(first + 1, RouteDerived(route))
             \o (IF wraps[1] THEN args ELSE <<>>)
        ELSE SelectSeq(args, LAMBDA h : wraps[h - first + 1])

RECURSIVE RegNewN(_, _)
RegNewN(reg, n) == IF n = 0 THEN reg ELSE RegNewN(RegNew(reg), n - 1)

\* The paths through a callback: it returns, the decoding of the wrapped
\* handle number failAt raises, the handler raises, or the handler's result
\* is rejected before it is encoded.
OwnPaths(route, custom) ==
    {[path |-> "ok", failAt |-> 0], [path |-> "handler", failAt |-> 0]}
    \cup {[path |-> "decode", failAt |-> k] :
            k \in 1..Len(Wrapped(route, custom, 1))}
    \cup (IF RouteReturnsHandle(route)
          THEN {[path |-> "result", failAt |-> 0]} ELSE {})

OFrame == UNCHANGED <<hvars, pvars, rvars, dlast, heap, names, alast, mlast, launch>>

\* One route callback from the engine's call to its return.
Route(route, custom, p, late) ==
    /\ own.reg.next + RouteArity(route) + RouteDerived(route)
            + (IF RouteReturnsHandle(route) THEN 1 ELSE 0) <= MaxOwnIds + 1
    /\ custom => route = "gate"
    /\ late => p.path = "decode"
    /\ LET first == own.reg.next
           Ended(out) ==
               [route |-> route, custom |-> custom, path |-> p.path,
                args |-> Seq1(first, RouteArity(route)), ret |-> out.ret,
                exc |-> IF p.path = "ok" THEN "ok" ELSE "raised",
                reg |-> out.reg]
           Result(reg) ==
               IF p.path = "ok" /\ RouteReturnsHandle(route)
               THEN ReturnTaken(reg) ELSE [reg |-> reg, ret |-> None]
       IN  own' = Ended(Result(
                DecodeAll(RegNewN(own.reg, RouteArity(route) + RouteDerived(route)),
                          Wrapped(route, custom, first), 1, p.failAt, late)))
    /\ OFrame

\* ---------------------------------------------------- launching a plugin
StartedMsg == "Plugin has been started before. Make a new instance!"
NoInitMsg ==
    "It looks like you've overwritten __init__ and forgot to call super().__init__(). Please fix!"

\* What a launch meets on its way: the simulator address is given, or taken
\* from an argv that has it or not; building the plugin definition and the
\* native entry point succeed or raise.
SimArgs == {"given", "argv", "noargv"}
Outcomes == {"ok", "raises"}

LaunchRaise(self, exc, msg) ==
    [self |-> self, exc |-> exc, msg |-> msg, native |-> FALSE]

\* The steps run() and start() share after their two checks: _parse_argv
\* exits without an address, _to_pdef() may raise, the native entry point
\* may raise, and only after it returned is _started set.
LaunchBody(self, sim, pdef, native) ==
    IF sim = "noargv" THEN LaunchRaise(self, "SystemExit", "")
    ELSE IF pdef = "raises" THEN LaunchRaise(self, "NotImplementedError", "")
    ELSE IF native = "raises"
    THEN [self |-> self, exc |-> "RuntimeError", msg |-> "native", native |-> TRUE]
    ELSE [self |-> [self EXCEPT !.started = TRUE], exc |-> "ok", msg |-> "",
          native |-> TRUE]

\* A start() that launches whether or not the instance was started before.
PluginStartAgain(self, sim, pdef, native) ==
    IF ~self.init THEN LaunchRaise(self, "RuntimeError", NoInitMsg)
    ELSE LaunchBody(self, sim, pdef, native)

\* Plugin.run(self, simulator=None)
PluginRun(self, sim, pdef, native) ==
    IF ~self.init THEN LaunchRaise(self, "RuntimeError", NoInitMsg)
    ELSE IF self.started THEN LaunchRaise(self, "RuntimeError", StartedMsg)
    ELSE LaunchBody(self, sim, pdef, native)

\* Plugin.start(self, simulator=None)
PluginStart(self, sim, pdef, native) ==
    IF ~self.init THEN LaunchRaise(self, "RuntimeError", NoInitMsg)
    ELSE IF self.started THEN LaunchRaise(self, "RuntimeError", StartedMsg)
    ELSE LaunchBody(self, sim, pdef, native)

LFrame == UNCHANGED <<hvars, pvars, rvars, dlast, heap, names, alast, mlast, own>>

Flags(l) == [init |-> l.init, started |-> l.started]

\* The instance after a launch call, with the native calls and the
\* completed launches counted.
Launched(op, r) ==
    [init |-> r.self.init, started |-> r.self.started, op |-> op,
     exc |-> r.exc, msg |-> r.msg,
     runs |-> launch.runs + (IF r.native /\ op = "run" THEN 1 ELSE 0),
     starts |-> launch.starts + (IF r.native /\ op = "start" THEN 1 ELSE 0),
     done |-> launch.done + (IF r.exc = "ok" THEN 1 ELSE 0)]

\* plugin.run(simulator)
CallRun(sim, pdef, native) ==
    /\ launch.runs < MaxLaunches
    /\ launch' = Launched("run", PluginRun(Flags(launch), sim, pdef, native))
    /\ LFrame

\* plugin.start(simulator)
CallStart(sim, pdef, native) ==
    /\ launch.starts < MaxLaunches
    /\ launch' = Launched("start", PluginStart(Flags(launch), sim, pdef, native))
    /\ LFrame

\* ------------------------------------------------- Measurement: calls
\* The qubits and values the caller passes: qubits around the lower limit,
\* values None, 0, 1 and one more truthy integer.
QubitArgs == (-1)..(MaxQubit + 1)
ValueArgs == {None, 0, 1, 2}
MeasDatas ==
    {ArbData(<<>>, EmptyJson), ArbData(<<Blob(1)>>, [k \in {"k"} |-> PInt(3)])}

MFrame == UNCHANGED <<hvars, pvars, rvars, dlast, heap, names, alast, launch, own>>

\* m = Measurement(qubit, value, *args, **kwargs); m stays what it was when
\* the constructor raises.
MeasNew(qubit, value, data) ==
    /\ LET Made(r) ==
               [op |-> "new", made |-> IF r.exc = "ok" THEN TRUE ELSE mlast.made,
                obj |-> IF r.exc = "ok" THEN r.val ELSE mlast.obj,
                qubit |-> qubit, value |-> value, exc |-> r.exc]
       IN  mlast' = Made(MeasurementInit(qubit, value, data.args, data.json))
    /\ MFrame

\* m.qubit = qubit
MeasAssignQubit(qubit) ==
    /\ mlast.made
    /\ LET Done(r) ==
               [mlast EXCEPT !.op = "qubit", !.qubit = qubit, !.exc = r.exc,
                             !.obj = IF r.exc = "ok" THEN r.val ELSE @]
       IN  mlast' = Done(MeasSetQubit(mlast.obj, qubit))
    /\ MFrame

\* m.value = value
MeasAssignValue(value) ==
    /\ mlast.made
    /\ LET Done(r) ==
               [mlast EXCEPT !.op = "value", !.value = value, !.exc = r.exc,
                             !.obj = IF r.exc = "ok" THEN r.val ELSE @]
       IN  mlast' = Done(MeasSetValue(mlast.obj, value))
    /\ MFrame

\* ------------------------------------------------------- specifications
\* Handle proxies over the native registry; no proxy exists at first.
HInit == HFixed /\ PFixed /\ DFixed

HNext ==
    \/ RawNew
    \/ \E i \in Ids : RawDelete(i)
    \/ \E p \in ProxyIds, i \in 0..MaxIds : HandleNew(p, i)
    \/ \E p \in ProxyIds : CallBool(p)
    \/ \E p \in ProxyIds : CallInt(p)
    \/ \E p \in ProxyIds : CallEnter(p)
    \/ \E p \in ProxyIds : CallTake(p)
    \/ \E p \in ProxyIds : CallGetType(p)
    \/ \E p \in ProxyIds, typ \in {"ARB_DATA", "INVALID"} : CallIsType(p, typ)
    \/ \E p \in ProxyIds, ctx \in {"owner", "foreign"} : CallDel(p, ctx)

SpecHandle == HInit /\ [][HNext]_vars

\* One plugin instance after construction, idle, and the callbacks and
\* accessor calls that reach it.
PInit ==
    /\ HFixed
    /\ DFixed
    /\ defined \in DefinedChoices
    /\ arbIfaces \in ArbIfacesChoices
    /\ stateHandle = None
    /\ stack = <<>>
    /\ hadFailure = FALSE
    /\ plast = NoPEvent
    /\ job = NoJob

PNext ==
    \/ \E s \in Sources, t \in Tokens, c \in Cmds : DeliverArb(s, t, c)
    \/ \E t \in Tokens : DeliverDrop(t)
    \/ DeliverMeta
    \/ \E t \in Tokens, d \in {EmptyData, SomeData} : DeliverRun(t, d)
    \/ \E v \in HandlerVals : HandlerReturn(v)
    \/ \E e \in HandlerExcs : HandlerRaise(e)
    \/ \E fn \in AccessorFns : \E ok \in ArgChoices(fn) : Accessor(fn, ok)

SpecPlugin == PInit /\ [][PNext]_vars

\* The initialization, metadata and optional-hook callbacks of one plugin.
InitHandlers ==
    {<<"handle_init">>, <<"get_name">>, <<"get_author">>, <<"get_version">>,
     HandlerName("host", <<"a">>, <<"x">>)} \cup MayHooks

IInit ==
    /\ HFixed
    /\ DFixed
    /\ defined \in {S \in SUBSET InitHandlers : Cardinality(S) <= MaxHandlers}
    /\ arbIfaces \in {a \in ArbIfacesChoices : a.known["upstream"] = {}}
    /\ stateHandle = None
    /\ stack = <<>>
    /\ hadFailure = FALSE
    /\ plast = NoPEvent
    /\ job = NoJob

INext ==
    \/ \E t \in RouteTokens, q \in CmdQueues : RouteInitialize(t, q)
    \/ \E h \in MayHooks, t \in RouteTokens : RouteHook(h, t)
    \/ NewPdef
    \/ \E v \in RouteVals : RouteReturn(v)
    \/ \E e \in HandlerExcs : RouteRaise(e)
    \/ RouteCallRejected

SpecInit == IInit /\ [][INext]_vars

\* The gate and run callbacks of one plugin.
GateHandlers ==
    {<<"handle_controlled_gate">>, <<"handle_unitary_gate">>,
     <<"handle_measurement_gate">>, GateHandlerName(<<"foo">>), RunHandler}

GInit ==
    /\ HFixed
    /\ DFixed
    /\ defined \in SUBSET GateHandlers
    /\ arbIfaces = [set |-> FALSE, known |-> [s \in Sources |-> {}]]
    /\ stateHandle = None
    /\ stack = <<>>
    /\ hadFailure = FALSE
    /\ plast = NoPEvent
    /\ job = NoJob

GNext ==
    \/ \E t \in RouteTokens, g \in Gates : RouteGate(t, g)
    \/ \E t \in RouteTokens, d \in {EmptyData, SomeData} : RouteRun(t, d)
    \/ \E v \in RouteVals : RouteReturn(v)
    \/ \E e \in HandlerExcs : RouteRaise(e)

SpecGate == GInit /\ [][GNext]_vars

\* The codecs of the data types, each applied to one value or argument list.
DInit ==
    /\ HFixed
    /\ PFixed
    /\ dlast \in DataInputs
    /\ AFixed

DNext ==
    \/ EncodeArbData
    \/ DecodeArbData
    \/ EncodeArbCmd
    \/ DecodeArbCmd
    \/ EncodeMeasurement
    \/ DecodeMeasurement
    \/ NewArbCmd
    \/ EncodeQubitSet
    \/ DecodeQubitSet
    \/ EncodeArbCmdQueue
    \/ DecodeArbCmdQueue
    \/ EncodeMeasurementSet
    \/ DecodeMeasurementSet
    \/ CallAllocate
    \/ EncodeArbDataInto
    \/ RouteNames

SpecData == DInit /\ [][DNext]_vars

\* Two names for ArbData objects, x and its copy y, and the operations of
\* the class on them.
AInit ==
    /\ HFixed
    /\ PFixed
    /\ dlast = NoData
    /\ heap = [a \in Addrs |-> FreeCell]
    /\ names = [n \in Names |-> NoArb]
    /\ alast = NoAEvent
    /\ XFixed

ANext ==
    \/ \E a \in ArgsChoices, kw \in KwargsChoices : New(a, kw)
    \/ Copy
    \/ \E n \in Names, key \in Keys :
          \E v \in IF key.str THEN MapValues ELSE ArgValues : SetItem(n, key, v)
    \/ \E n \in Names, key \in Keys : DelItem(n, key)
    \/ \E n \in Names, v \in ArgValues : AppendArg(n, v)
    \/ \E n \in Names, i \in 0..1, v \in ArgValues : InsertArg(n, i, v)
    \/ \E n \in Names : Clear(n)
    \/ \E n \in Names, how \in {"append", "assign"}, v \in ListValues :
          MutateRead(n, "k", how, v)
    \/ \E n \in Names : Send(n)

SpecArb == AInit /\ [][ANext]_vars

\* One name for a Measurement object, m, its constructor and the two
\* property assignments.
MInit == HFixed /\ PFixed /\ DFixed

MNext ==
    \/ \E q \in QubitArgs, v \in ValueArgs, d \in MeasDatas : MeasNew(q, v, d)
    \/ \E q \in QubitArgs : MeasAssignQubit(q)
    \/ \E v \in ValueArgs : MeasAssignValue(v)

SpecMeas == MInit /\ [][MNext]_vars

\* One plugin instance, made with or without the base initializer, and the
\* run() and start() calls on it.
LInit ==
    /\ HFixed
    /\ PFixed
    /\ dlast = NoData
    /\ heap = [a \in Addrs |-> FreeCell]
    /\ names = [n \in Names |-> NoArb]
    /\ alast = NoAEvent
    /\ MFixed
    /\ OFixed
    /\ launch \in {[NoLaunch EXCEPT !.init = b] : b \in BOOLEAN}

LNext ==
    \/ \E sim \in SimArgs, pdef \in Outcomes, native \in Outcomes :
          CallRun(sim, pdef, native)
    \/ \E sim \in SimArgs, pdef \in Outcomes, native \in Outcomes :
          CallStart(sim, pdef, native)

SpecLaunch == LInit /\ [][LNext]_vars

\* The engine's registry and the route callbacks it delivers, one after
\* the other, each with handles of its own.
OInit ==
    /\ HFixed
    /\ PFixed
    /\ dlast = NoData
    /\ heap = [a \in Addrs |-> FreeCell]
    /\ names = [n \in Names |-> NoArb]
    /\ alast = NoAEvent
    /\ MFixed
    /\ LFixed
    /\ OFixed

ONext ==
    \E route \in OwnRoutes, custom \in BOOLEAN, late \in BOOLEAN :
        \E p \in OwnPaths(route, custom) : Route(route, custom, p, late)

SpecOwn == OInit /\ [][ONext]_vars


\* ------------------------------------------------------- Handle: claims

\* C1 (as claimed): finalizing a valid proxy whose ownership was never taken
\* calls the native delete for its id exactly once, afterwards the registry
\* reports the id as invalid, and no resource is deleted more than once.
C1_ReleaseInvalidates ==
    /\ (hlast.op = "del" /\ hlast.pre > 0) =>
           (hlast.ndel = 1 /\ hlast.pre \notin live)
    /\ \A i \in Ids : removals[i] <= 1

\* C1 (amended): finalizing a valid, never-taken proxy calls the native delete
\* for its id exactly once; when the finalizer runs in the owning execution
\* context the id is invalid afterwards, when it runs in a foreign context the
\* call fails and the resource stays as it was (leaked); no resource is
\* deleted more than once.
C1_ReleaseOnce ==
    /\ (hlast.op = "del" /\ hlast.pre > 0) =>
           /\ hlast.ndel = 1
           /\ hlast.ctx = "owner" => hlast.pre \notin live
           /\ hlast.ctx = "foreign" => live = hlast.liveBefore
    /\ \A i \in Ids : removals[i] <= 1

C1_Witness ==
    /\ hlast.op = "del" /\ hlast.ctx = "owner"
    /\ hlast.pre > 0 /\ hlast.pre \in hlast.liveBefore
    /\ hlast.pre \notin live /\ removals[hlast.pre] = 1

\* C2: once take() has returned on a proxy, int(), with, take(), get_type()
\* and is_type() on it fail with ValueError and bool() is False; take() hands
\* out the id unchanged without touching the registry, and the proxy never
\* deletes the id it gave away: a resource that was live at take() stays live
\* until the caller deletes it through the raw id (or another owner does).
C2_TakenInert ==
    /\ \A p \in ProxyIds : proxies[p].ret # None => proxies[p].handle = None
    /\ (hlast.op \in {"int", "enter", "take", "get_type", "is_type"}
            /\ hlast.pre = None) => hlast.exc = "ValueError"
    /\ (hlast.op = "bool" /\ hlast.pre = None) => ~hlast.flag
    /\ (hlast.op = "take" /\ hlast.exc = "ok") =>
            (hlast.val = hlast.pre /\ live = hlast.liveBefore)
    /\ \A p \in ProxyIds :
          (proxies[p].ret > 0 /\ proxies[p].retLive) =>
              \/ proxies[p].ret \in live
              \/ remover[proxies[p].ret].by = "raw"
              \/ (remover[proxies[p].ret].by = "proxy" /\ remover[proxies[p].ret].p # p)

C2_Witness ==
    /\ hlast.op = "int" /\ hlast.pre = None /\ hlast.exc = "ValueError"
    /\ proxies[hlast.p].ret > 0
    /\ proxies[hlast.p].ret \in live
    /\ proxies[hlast.p].dels > 0

\* C3: releasing a proxy whose ownership was taken, or that never was valid
\* (id 0), makes no native delete call and leaves the live set unchanged.
C3_NoDeleteWhenTakenOrEmpty ==
    (hlast.op = "del" /\ (hlast.pre = None \/ hlast.pre = 0)) =>
        (hlast.ndel = 0 /\ live = hlast.liveBefore /\ hlast.exc = "ok")

C3_Witness ==
    /\ hlast.op = "del" /\ hlast.pre = None
    /\ proxies[hlast.p].ret > 0
    /\ proxies[hlast.p].ret \in live

\* C4 (as claimed): release is idempotent: however often the finalizer of one
\* proxy runs, the native delete is called at most once for that proxy's id.
C4_DeleteCalledAtMostOnce ==
    \A p \in ProxyIds : proxies[p].ndel <= 1

\* C5: when the native delete fails during a release, the failure is
\* swallowed: the release does not raise, it made that one delete call and no
\* second one, and the registry is left as it was.
C5_FailureSwallowed ==
    (hlast.op = "del" /\ hlast.failed) =>
        (hlast.exc = "ok" /\ hlast.ndel = 1 /\ live = hlast.liveBefore)

C5_Witness ==
    /\ hlast.op = "del" /\ hlast.failed
    /\ hlast.ctx = "owner"
    /\ hlast.pre \notin hlast.liveBefore
    /\ remover[hlast.pre].by = "raw"

\* ------------------------------------------------------- Plugin: claims

\* C6 (as claimed): while a callback dispatched with a context token is
\* executing, any attempt to dispatch a second callback (any call of _cb by a
\* route function) raises RuntimeError, does not invoke a handler and leaves
\* the outer token unchanged.
C6_NestedAlwaysRejected ==
    (plast.kind = "deliver" /\ plast.depth > 0 /\ plast.preToken # None
        /\ plast.pre = "cb") =>
        /\ plast.exc = "RuntimeError"
        /\ ~plast.entered
        /\ Len(stack) = plast.depth
        /\ stateHandle = plast.preToken

\* C6 (amended): while a callback dispatched with a context token is
\* executing, no attempt to dispatch a second callback invokes a handler or
\* changes the token of the outer callback; the attempt raises RuntimeError
\* (recursive callback) whenever it reaches the lookup of a handler that the
\* plugin defines (for a handler the plugin does not define, the lookup fails
\* before the guard is consulted).
C6_NestedNeverEnters ==
    (plast.kind = "deliver" /\ plast.depth > 0 /\ plast.preToken # None) =>
        /\ ~plast.entered
        /\ Len(stack) = plast.depth
        /\ stateHandle = plast.preToken
        /\ Top.token = plast.preToken
        /\ (plast.pre = "cb" /\ plast.name \in defined) =>
               (plast.cb = "RuntimeError" /\ plast.exc = "RuntimeError")

C6_Witness ==
    /\ plast.kind = "deliver" /\ plast.depth > 0
    /\ plast.preToken # None /\ plast.token # plast.preToken
    /\ plast.name \in defined
    /\ plast.exc = "RuntimeError"
    /\ stateHandle = plast.preToken

\* C7: the context token is held exactly while a handler that was dispatched
\* with a token is executing; when a handler returns or raises the token is
\* cleared, the idle instance holds none, and a callback delivered to the idle
\* instance (also after a failed one) is never rejected as recursive.
C7_TokenOnlyWhileExecuting ==
    /\ (stateHandle # None) <=> (stack # <<>> /\ Top.token # None)
    /\ stack # <<>> => stateHandle = Top.token
    /\ plast.kind \in {"return", "raise"} => stateHandle = None
    /\ (plast.kind = "deliver" /\ plast.depth = 0) =>
           (plast.cb # "RuntimeError" /\ plast.exc # "RuntimeError")

C7_Witness ==
    /\ plast.kind = "deliver" /\ plast.depth = 0
    /\ hadFailure
    /\ plast.entered /\ plast.token # None
    /\ stateHandle = plast.token

\* C8 (as claimed): an accessor (given well-formed arguments) called while no
\* callback is active raises RuntimeError and makes no native call; called
\* inside a callback it passes the token of that callback to the native call.
C8_AccessorsNeedCallback ==
    (plast.kind = "accessor" /\ plast.argsOk) =>
        /\ plast.depth = 0 => (plast.exc = "RuntimeError" /\ plast.native = <<>>)
        /\ plast.depth > 0 =>
               /\ plast.exc = "ok"
               /\ plast.native # <<>>
               /\ plast.nativeTok # None
               /\ plast.nativeTok = Top.token

\* C8 (amended): an accessor called while the instance holds no context
\* token (outside any callback, or inside a metadata getter, which is
\* dispatched without one) makes no native call and raises RuntimeError
\* 'Cannot call plugin operator outside of a callback', unless the conversion
\* of its arguments fails first; called with well-formed arguments while a
\* token is held, it passes that token, the token of the executing callback,
\* to its native plugin call, except for the logging functions, which only
\* check the token and call the native log without it.
C8_AccessorsNeedToken ==
    plast.kind = "accessor" =>
        /\ plast.depth = 0 => plast.preToken = None
        /\ plast.preToken = None =>
               /\ plast.native = <<>>
               /\ plast.exc \in {"RuntimeError", "ArgError"}
               /\ plast.argsOk => plast.exc = "RuntimeError"
        /\ ~plast.argsOk => (plast.native = <<>> /\ plast.exc # "ok")
        /\ (plast.argsOk /\ plast.preToken # None /\ plast.fn \notin LogFns) =>
               /\ plast.exc = "ok"
               /\ plast.native = <<"dqcs_plugin", plast.fn>>
               /\ plast.nativeTok = plast.preToken
               /\ plast.nativeTok = Top.token
        /\ (plast.argsOk /\ plast.preToken # None /\ plast.fn \in LogFns) =>
               /\ plast.exc = "ok"
               /\ plast.native = <<"dqcs_log_raw">>
               /\ plast.nativeTok = None

C8_Witness ==
    /\ plast.kind = "accessor" /\ plast.fn = "allocate" /\ plast.argsOk
    /\ plast.depth > 0
    /\ plast.exc = "ok"
    /\ plast.nativeTok # None /\ plast.nativeTok = Top.token

\* C9 (as claimed): a command (iface, oper) from source s is dispatched to
\* handle_<s>_<iface>_<oper> whenever the plugin defines that handler, with
\* the command's binary list and keyed map as arguments; the declared
\* interface set plays no part then.
C9_DefinedHandlerIsCalled ==
    (plast.kind = "deliver" /\ plast.route = "arb" /\ plast.depth = 0
        /\ arbIfaces.set /\ plast.name \in defined) =>
        /\ plast.entered
        /\ Top.name = HandlerName(plast.source, plast.cmd.iface, plast.cmd.oper)
        /\ Top.args = plast.cmd.data.args
        /\ Top.kwargs = plast.cmd.data.json

\* C10: a command whose handler the plugin does not define, but whose iface
\* is in the declared interface set of its source, fails with the error
\* 'Invalid operation ID <oper> for interface ID <iface>'.
C10_InvalidOperation ==
    (plast.kind = "deliver" /\ plast.route = "arb" /\ plast.name \notin defined
        /\ arbIfaces.set /\ plast.cmd.iface \in arbIfaces.known[plast.source]) =>
        /\ ~plast.entered
        /\ plast.exc = "ValueError"
        /\ plast.msg = <<"Invalid operation ID", plast.cmd.oper,
                         "for interface ID", plast.cmd.iface>>

C10_Witness ==
    /\ plast.kind = "deliver" /\ plast.route = "arb" /\ plast.depth = 0
    /\ plast.name \notin defined
    /\ arbIfaces.set /\ plast.cmd.iface \in arbIfaces.known[plast.source]
    /\ plast.exc = "ValueError"

\* C11: a command whose handler the plugin does not define and whose iface is
\* not in the declared interface set of its source is a silent no-op: no
\* handler is invoked, no error is raised, the callback returns an empty
\* ArbData. A plugin that never set _arb_interfaces declares no interface.
C11_UnknownIfaceNoOp ==
    (plast.kind = "deliver" /\ plast.route = "arb" /\ plast.name \notin defined
        /\ plast.cmd.iface \notin arbIfaces.known[plast.source]) =>
        /\ ~plast.entered
        /\ Len(stack) = plast.depth
        /\ plast.exc = "ok"
        /\ plast.ret = "empty"

\* C20: a host or upstream command handler, or handle_run, that returns None
\* yields an empty ArbData, one that returns an ArbData yields that value, and
\* one that returns anything else makes the callback fail with TypeError and
\* return nothing.
C20_ResultConversion ==
    (plast.kind = "return" /\ plast.route \in {"arb", "run"}) =>
        /\ plast.val = "None" => (plast.exc = "ok" /\ plast.ret = "empty")
        /\ plast.val = "ArbData" => (plast.exc = "ok" /\ plast.ret = "data")
        /\ plast.val = "other" => (plast.exc = "TypeError" /\ plast.ret = "none")

C20_Witness ==
    /\ plast.kind = "return" /\ plast.route = "run"
    /\ plast.val = "other" /\ plast.exc = "TypeError"
    /\ stateHandle = None

\* --------------------------------------------- route callbacks: claims

\* C12 (as claimed): an exception raised by a handler that was invoked through
\* the dispatch core (the metadata getters included) is propagated to the
\* caller of the route callback as that same exception; it is never swallowed
\* or replaced by another error.
C12_ExceptionPropagates ==
    (job.pc = "done" /\ job.handlerExc # "none") => job.exc = job.handlerExc

\* C13 (as claimed): on initialization, a plugin that defines handle_init has
\* it called exactly once with the whole command list and no command is
\* re-routed; for a plugin that defines no handle_init every command is
\* re-routed as a host command, one at a time in queue order, each in its own
\* callback section, and none is rejected as recursive.
C13_InitRouting ==
    job.kind = "init" =>
        /\ <<"handle_init">> \in defined =>
              /\ Len(CallsOf(<<"handle_init">>)) = 1
              /\ job.calls[1].args.cmds = job.cmds
              /\ job.rerouted = <<>>
              /\ Len(job.calls) = 1
        /\ <<"handle_init">> \notin defined =>
              /\ CallsOf(<<"handle_init">>) = <<>>
              /\ Len(job.rerouted) <= Len(job.cmds)
              /\ job.rerouted = SubSeq(job.cmds, 1, Len(job.rerouted))
              /\ (job.pc = "done" /\ job.exc = "ok") => job.rerouted = job.cmds
              /\ job.exc # "RuntimeError"
              /\ job.pc = "handler" =>
                    (stateHandle = job.token /\ Len(job.ends) = Len(job.calls) - 1)
              /\ job.pc = "done" =>
                    (stateHandle = None /\ Len(job.ends) = Len(job.calls))

\* C14: when the plugin does not define a MAY hook (handle_drop,
\* handle_allocate, handle_free, handle_advance), its callback returns
\* normally: no error, no handler runs, the instance is idle afterwards.
C14_MissingHookIsNoError ==
    (job.kind = "hook" /\ job.hook \notin defined) =>
        /\ job.pc = "done"
        /\ job.exc = "ok"
        /\ job.calls = <<>>
        /\ stateHandle = None

C14_Witness ==
    /\ job.kind = "hook" /\ job.hook = <<"handle_allocate">>
    /\ job.hook \notin defined /\ defined # {}
    /\ job.pc = "done" /\ job.exc = "ok"

C16_ControlledHandlerStops ==
    (job.kind = "gate" /\ job.gate.name = <<>> /\ job.gate.targets # <<>>
        /\ Truthy(job.gate.matrix) /\ job.gate.controls # <<>>
        /\ <<"handle_controlled_gate">> \in defined) =>
        /\ Len(CallsOf(<<"handle_controlled_gate">>)) = 1
        /\ job.calls[1].name = <<"handle_controlled_gate">>
        /\ job.calls[1].args.targets = job.gate.targets
        /\ job.calls[1].args.controls = job.gate.controls
        /\ job.calls[1].args.matrix = job.gate.matrix
        /\ CallsOf(<<"handle_unitary_gate">>) = <<>>

\* C17: for a gate that is not custom, with t >= 1 targets, c >= 1 controls
\* and a 2^t x 2^t matrix M, a plugin without handle_controlled_gate has
\* handle_unitary_gate called exactly once, with the target list
\* controls ++ targets and the row-major matrix E of dimension n = 2^(t+c)
\* with E[r][k] = 1 if r = k < offset, M[r-offset][k-offset] if r, k >= offset,
\* 0 otherwise, where offset = n - 2^t; for X with one control E is the CNOT
\* matrix, with two controls the Toffoli matrix.
C17_UpscaledUnitary ==
    (job.kind = "gate" /\ job.gate.name = <<>> /\ job.gate.targets # <<>>
        /\ Truthy(job.gate.matrix) /\ job.gate.controls # <<>>
        /\ <<"handle_controlled_gate">> \notin defined
        /\ <<"handle_unitary_gate">> \in defined) =>
        LET t == Len(job.gate.targets)
            c == Len(job.gate.controls)
            n == Pow2(t + c)
            offset == n - Pow2(t)
            M == job.gate.matrix.m
            E == [i \in 1..(n * n) |->
                    LET r == (i - 1) \div n
                        k == (i - 1) % n
                    IN  IF r = k /\ r < offset THEN 1
                        ELSE IF r >= offset /\ k >= offset
                        THEN M[(r - offset) * Pow2(t) + (k - offset) + 1]
                        ELSE 0]
        IN  /\ Len(CallsOf(<<"handle_unitary_gate">>)) = 1
            /\ job.calls[1].name = <<"handle_unitary_gate">>
            /\ job.calls[1].args.targets = job.gate.controls \o job.gate.targets
            /\ job.calls[1].args.matrix = Matrix(E)
            /\ (M = PauliX /\ c = 1) =>
                   job.calls[1].args.matrix.m =
                       <<1, 0, 0, 0,  0, 1, 0, 0,  0, 0, 0, 1,  0, 0, 1, 0>>
            /\ (M = PauliX /\ c = 2) =>
                   job.calls[1].args.matrix.m =
                       <<1, 0, 0, 0, 0, 0, 0, 0,  0, 1, 0, 0, 0, 0, 0, 0,
                         0, 0, 1, 0, 0, 0, 0, 0,  0, 0, 0, 1, 0, 0, 0, 0,
                         0, 0, 0, 0, 1, 0, 0, 0,  0, 0, 0, 0, 0, 1, 0, 0,
                         0, 0, 0, 0, 0, 0, 0, 1,  0, 0, 0, 0, 0, 0, 1, 0>>

C17_Witness ==
    /\ job.kind = "gate" /\ job.gate.name = <<>> /\ job.pc = "done"
    /\ Len(job.gate.targets) = 1 /\ Len(job.gate.controls) = 2
    /\ job.gate.matrix = Matrix(GenericMatrix(1))
    /\ <<"handle_controlled_gate">> \notin defined
    /\ Len(CallsOf(<<"handle_unitary_gate">>)) = 1
    /\ job.exc = "ok"

\* C18: for a gate that is not custom, handle_measurement_gate is invoked if
\* and only if the gate's measures are non-empty (and no earlier part of the
\* callback failed), whether or not the gate has a unitary part; when it has
\* both, the unitary handler has completed before the measurement handler
\* starts, and when the unitary part fails the measurement handler is not
\* invoked.
C18_MeasurementAfterUnitary ==
    (job.kind = "gate" /\ job.gate.name = <<>>
        /\ <<"handle_measurement_gate">> \in defined) =>
        LET ms == CallsOf(<<"handle_measurement_gate">>)
            hasUnitary == job.gate.targets # <<>> /\ Truthy(job.gate.matrix)
        IN  /\ Len(ms) <= 1
            /\ job.gate.measures = <<>> => ms = <<>>
            /\ (job.gate.measures # <<>> /\ ~hasUnitary) =>
                   (ms # <<>> /\ job.calls[1].name = <<"handle_measurement_gate">>)
            /\ (job.gate.measures # <<>> /\ job.pc = "done" /\ job.exc = "ok") =>
                   ms # <<>>
            /\ ms # <<>> =>
                   /\ job.calls[Len(job.calls)] = ms[1]
                   /\ ms[1].args.measures = job.gate.measures
                   /\ \A i \in 1..(Len(job.calls) - 1) : job.ends[i] \in {"ok", "NotImplementedError"}
                   /\ hasUnitary =>
                          /\ Len(job.calls) >= 2
                          /\ job.calls[Len(job.calls) - 1].name = <<"handle_unitary_gate">>
                          /\ job.ends[Len(job.calls) - 1] = "ok"
            /\ (hasUnitary /\ job.pc = "done" /\ ms = <<>>
                    /\ job.gate.measures # <<>>) => job.exc # "ok"

C18_Witness ==
    /\ job.kind = "gate" /\ job.gate.name = <<>> /\ job.pc = "handler"
    /\ job.running = <<"handle_measurement_gate">>
    /\ job.gate.targets # <<>> /\ job.gate.controls # <<>>
    /\ Len(job.calls) = 2 /\ job.ends = <<"ok">>

\* C19: a custom (named) gate invokes only handle_<name>_gate, exactly once,
\* with the received targets, controls, measures, the matrix (None when the
\* gate has none) and the binary list and keyed map of the attached ArbData;
\* the matrix is not upscaled, and handle_unitary_gate, handle_controlled_gate
\* and handle_measurement_gate are never invoked for it.
C19_CustomGateOnly ==
    (job.kind = "gate" /\ job.gate.name # <<>>
        /\ GateHandlerName(job.gate.name) \in defined) =>
        /\ Len(job.calls) = 1
        /\ job.calls[1].name = GateHandlerName(job.gate.name)
        /\ job.calls[1].args =
               [NoArgs EXCEPT !.targets = job.gate.targets,
                              !.controls = job.gate.controls,
                              !.measures = job.gate.measures,
                              !.matrix = job.gate.matrix,
                              !.args = job.gate.data.args,
                              !.kwargs = job.gate.data.json]
        /\ job.matrix = job.gate.matrix /\ job.targets = job.gate.targets

C19_Witness ==
    /\ job.kind = "gate" /\ job.gate.name = <<"foo">> /\ job.pc = "done"
    /\ ~job.gate.matrix.has /\ job.gate.controls # <<>>
    /\ job.gate.measures # <<>>
    /\ \A h \in GateHandlers : h \in defined
    /\ job.exc = "ok" /\ Len(job.calls) = 1


\* C34 (as claimed): when the call of handle_init with the command list is
\* rejected because handle_init takes no argument, the initialization does
\* not fail with that TypeError and the commands are re-routed as host
\* commands.
C34_InitWithoutArgument ==
    (/\ job.kind = "init"
     /\ job.calls # <<>>
     /\ job.ends # <<>>
     /\ job.calls[1].name = <<"handle_init">>
     /\ job.ends[1] = "TypeError") =>
        /\ ~(job.pc = "done" /\ job.exc = "TypeError" /\ Len(job.calls) = 1)
        /\ job.cmds # <<>> => job.rerouted # <<>>

\* C40 (as claimed): a handler that exists and raises NotImplementedError is
\* not treated as absent: the route callback makes no further handler call,
\* re-routes nothing and ends with that NotImplementedError.
C40_FallbackOnlyWhenAbsent ==
    \A i \in 1..Len(job.ends) :
        job.ends[i] = "NotImplementedError" =>
            /\ Len(job.calls) = i
            /\ job.rerouted = <<>>
            /\ job.pc = "done"
            /\ job.exc = "NotImplementedError"

\* ---------------------------------------------------- data types: claims
IsEnvelope == dlast.kind \in {"ArbData", "ArbCmd", "Measurement"}

\* C21: decoding the encoding of an ArbData, ArbCmd or Measurement succeeds
\* and returns a value equal to the one that was encoded (map, binary
\* arguments in order, identifiers, qubit and value), whatever the length of
\* the blobs and of the encoded map.
C21_RoundTrip ==
    (IsEnvelope /\ dlast.op = "from_raw")
        => (dlast.exc = "ok" /\ dlast.out = dlast.obj)

\* The qubit ids a QubitSet call was given, and whether they are distinct
\* and positive.
QubitIds == [i \in DOMAIN dlast.elems |-> dlast.elems[i].n]
Offending(ids, i) == ids[i] = 0 \/ \E j \in 1..(i - 1) : ids[j] = ids[i]
DistinctPositive(ids) == \A i \in DOMAIN ids : ~Offending(ids, i)
OtherForm == IF dlast.form = "variadic" THEN "iterable" ELSE "variadic"

\* C22: for distinct positive qubit ids, to_raw builds the same native set
\* in the variadic and in the single-iterable call form, and from_raw of it
\* returns the ids in the order they were given.
C22_QubitSetForms ==
    (dlast.kind = "QubitSet" /\ DistinctPositive(QubitIds))
        => /\ dlast.op = "to_raw" =>
                /\ dlast.returned
                /\ dlast.raw = QubitSetToRaw(CallArgs(OtherForm, dlast.elems)).raw
           /\ dlast.op = "from_raw" => dlast.list = QubitIds

C22_Witness ==
    /\ dlast.kind = "QubitSet"
    /\ dlast.op = "from_raw"
    /\ dlast.form = "iterable"
    /\ Len(dlast.elems) >= 2
    /\ dlast.list = QubitIds

\* C23: to_raw of a sequence with a duplicate qubit id or the id 0 fails at
\* the push of the first such element and returns no handle; the set behind
\* a returned handle holds no duplicate and no zero.
C23_QubitSetRejects ==
    (dlast.kind = "QubitSet" /\ dlast.op = "to_raw")
        => /\ ~DistinctPositive(QubitIds) =>
                /\ dlast.exc = "RuntimeError"
                /\ ~dlast.returned
                /\ Offending(QubitIds, dlast.at)
                /\ \A i \in 1..(dlast.at - 1) : ~Offending(QubitIds, i)
           /\ dlast.returned => DistinctPositive(dlast.raw)

C23_Witness ==
    /\ dlast.kind = "QubitSet"
    /\ dlast.op = "to_raw"
    /\ dlast.exc = "RuntimeError"
    /\ dlast.at = 3
    /\ QubitIds[1] = QubitIds[3]

\* C24: to_raw fails with a TypeError when an element is not an ArbCmd; for
\* commands only it returns a queue, and from_raw of the queue returns the
\* same commands in the same order, in both call forms.
C24_QueueRoundTrip ==
    dlast.kind = "ArbCmdQueue"
        => /\ dlast.op = "to_raw" =>
                IF \E i \in DOMAIN dlast.elems : dlast.elems[i].cls # "ArbCmd"
                THEN dlast.exc = "TypeError" /\ ~dlast.returned
                ELSE dlast.returned
           /\ dlast.op = "from_raw" =>
                (dlast.exc = "ok" /\ dlast.list = dlast.elems)

IsMeasurement(i) == dlast.elems[i].cls = "Measurement"
RepeatsQubit(i) ==
    /\ IsMeasurement(i)
    /\ \E j \in 1..(i - 1) :
          IsMeasurement(j) /\ dlast.elems[j].qubit = dlast.elems[i].qubit
OnePerQubit ==
    /\ Cardinality(dlast.raw) = Len(dlast.elems)
    /\ \A i \in DOMAIN dlast.elems :
          Cardinality({m \in dlast.raw : m.qubit = dlast.elems[i].qubit}) = 1

\* C25 (as claimed): to_raw fails with a ValueError when two measurements
\* refer to the same qubit and with a TypeError when an element is not a
\* Measurement; a set that was built holds one measurement per qubit.
C25_SetRejects ==
    (dlast.kind = "MeasurementSet" /\ dlast.op = "to_raw")
        => /\ (\E i \in DOMAIN dlast.elems : RepeatsQubit(i))
                => dlast.exc = "ValueError"
           /\ (\E i \in DOMAIN dlast.elems : ~IsMeasurement(i))
                => dlast.exc = "TypeError"
           /\ dlast.returned => OnePerQubit

BadElement(i) == ~IsMeasurement(i) \/ RepeatsQubit(i)

\* C25 (amended): to_raw fails at the first element that is not a
\* Measurement or that repeats the qubit of an earlier element, with a
\* TypeError in the first case and a ValueError in the second; a set that was
\* built holds one measurement per qubit.
C25_FirstBadElementDecides ==
    (dlast.kind = "MeasurementSet" /\ dlast.op = "to_raw")
        => /\ \A i \in DOMAIN dlast.elems :
                (BadElement(i) /\ \A j \in 1..(i - 1) : ~BadElement(j))
                    => /\ ~dlast.returned
                       /\ dlast.exc = IF IsMeasurement(i) THEN "ValueError"
                                      ELSE "TypeError"
           /\ dlast.returned => OnePerQubit

C25_Witness ==
    /\ dlast.kind = "MeasurementSet"
    /\ dlast.op = "to_raw"
    /\ Len(dlast.elems) = 3
    /\ ~IsMeasurement(1)
    /\ RepeatsQubit(3)
    /\ dlast.elems[2].value # dlast.elems[3].value
    /\ dlast.exc = "TypeError"

\* C26: the list from_raw returns holds the measurements of the set in
\* strictly ascending order of qubit id, whatever the order in which they
\* were inserted and the order in which the native set handed them out.
C26_AscendingQubits ==
    (dlast.kind = "MeasurementSet" /\ dlast.op = "from_raw" /\ dlast.exc = "ok")
        => /\ Len(dlast.list) = Len(dlast.elems)
           /\ \A i \in DOMAIN dlast.elems :
                \E j \in DOMAIN dlast.list : dlast.list[j] = dlast.elems[i]
           /\ \A i \in 1..(Len(dlast.list) - 1) :
                dlast.list[i].qubit < dlast.list[i + 1].qubit

C26_Witness ==
    /\ dlast.kind = "MeasurementSet"
    /\ dlast.op = "from_raw"
    /\ dlast.exc = "ok"
    /\ Len(dlast.list) >= 2
    /\ dlast.elems[1].qubit > dlast.elems[2].qubit
    /\ dlast.taken[1].qubit > dlast.taken[2].qubit

\* C27: whatever public operations were applied to an ArbData, each value of
\* its keyed map can be encoded, and encoding the object does not fail.
C27_MapAlwaysEncodable ==
    /\ \A n \in Names :
          names[n].made => KwargsEncodable(ValueOf(heap, names[n]).json)
    /\ alast.op = "to_raw" => alast.exc = "ok"

Unchanged(n) == ValueOf(heap', names'[n]) = ValueOf(heap, names[n])

\* C28: a constructor call, item assignment, append or insert that is given
\* a binary argument that is no buffer, or a map value that cannot be
\* encoded, fails with a TypeError, and after a failed assignment, append or
\* insert the args list and the keyed map of the object are what they were.
C28_BadValueRejected ==
    [][(alast'.op \in {"new", "setitem", "append", "insert"} /\ alast'.bad)
          => /\ alast'.exc = "TypeError"
             /\ alast'.op # "new" => \A n \in Names : Unchanged(n)]_vars

C28_Witness ==
    /\ alast.op = "setitem"
    /\ alast.bad
    /\ alast.exc = "TypeError"
    /\ ValueOf(heap, names[alast.target]).args # <<>>
    /\ "k" \in DOMAIN ValueOf(heap, names[alast.target]).json

Mutations ==
    {"setitem", "delitem", "append", "insert", "clear", "list.append",
     "list.setitem"}

\* C29: with y a copy of x, an operation that changes x (a binary argument
\* replaced, a key assigned, a list in the map changed in place) leaves y as
\* it was, and one that changes y leaves x as it was.
C29_CopyIndependent ==
    [][\A n \in Names :
          (alast'.op \in Mutations /\ alast'.target # n /\ names[n].made)
              => Unchanged(n)]_vars

C29_Witness ==
    /\ alast.op = "list.append"
    /\ alast.target = "x"
    /\ names["y"].made
    /\ "k" \in DOMAIN ValueOf(heap, names["y"]).json
    /\ ValueOf(heap, names["y"]).json["k"].cls = "list"
    /\ ValueOf(heap, names["y"]) # ValueOf(heap, names["x"])

IsIdentifier(s) == Len(s) >= 1 /\ \A i \in DOMAIN s : s[i] \in IdentChars

\* C30: an ArbCmd that was constructed has an iface and an oper made of one
\* or more characters of [A-Za-z0-9_] only, and constructing one with any
\* other iface or oper fails with a ValueError.
C30_IdentifiersValid ==
    (dlast.kind = "ArbCmd()" /\ dlast.op = "new" /\ Len(dlast.call) = 2)
        => IF IsIdentifier(dlast.call[1].b) /\ IsIdentifier(dlast.call[2].b)
           THEN dlast.exc = "ok"
           ELSE dlast.exc = "ValueError"

\* C33 (as claimed): allocate(n, c1, ..., ck) and allocate(n, [c1, ..., ck])
\* both send the request for n qubits (one qubit for None) with the queue of
\* the commands c1, ..., ck in that order.
C33_AllocateForms ==
    (dlast.kind = "allocate" /\ dlast.op = "sent") =>
        /\ dlast.exc = "ok"
        /\ dlast.sent = (IF dlast.n = None THEN 1 ELSE dlast.n)
        /\ ArbCmdQueueFromRaw(dlast.raw).list = dlast.elems

NativeLen(d) ==
    IF d.kind = "MeasurementSet" THEN Cardinality(d.raw) ELSE Len(d.raw)

\* C35: a from_raw of a QubitSet, an ArbCmdQueue or a MeasurementSet that
\* returns has completed as many iterations as the native collection held
\* elements, returns a list of that many elements and leaves the native
\* collection empty.
C35_FromRawDrains ==
    (/\ dlast.kind \in {"QubitSet", "ArbCmdQueue", "MeasurementSet"}
     /\ dlast.op = "from_raw"
     /\ dlast.exc = "ok") =>
        /\ dlast.steps = NativeLen(dlast)
        /\ Len(dlast.list) = NativeLen(dlast)
        /\ dlast.left = 0

C35_Witness ==
    /\ dlast.kind = "ArbCmdQueue"
    /\ dlast.op = "from_raw"
    /\ dlast.exc = "ok"
    /\ Len(dlast.raw) = MaxSeq
    /\ Len(dlast.list) = MaxSeq
    /\ dlast.left = 0

\* C36 (as claimed): encoding an ArbData v into a handle whose native
\* object held something else returns the proxy it was given, and decoding
\* the handle afterwards succeeds and yields exactly v.
C36_EncodeIntoReplaces ==
    dlast.kind = "ArbData.into" =>
        /\ dlast.op = "to_raw" => (dlast.exc = "ok" /\ dlast.handle = dlast.target)
        /\ dlast.op = "from_raw" => (dlast.exc = "ok" /\ dlast.out = dlast.obj)

\* C39 (as claimed): two commands from the same source that ArbCmd accepted
\* and that differ in iface or oper are looked up under different handler
\* names.
C39_RoutingUnambiguous ==
    (/\ dlast.kind = "route"
     /\ dlast.op = "routed"
     /\ dlast.exc = "ok"
     /\ SubSeq(dlast.call, 1, 2) # SubSeq(dlast.call, 3, 4)) =>
        dlast.list[1] # dlast.list[2]

\* -------------------------------------------------- Measurement: claims

\* C31: the qubit of the Measurement m is at least 1 and its value is 0, 1
\* or None after every call; a constructor call or a qubit assignment with a
\* qubit below 1 raises ValueError, and such an assignment leaves m as it was.
C31_QubitAtLeastOne ==
    [][/\ mlast'.made =>
            /\ mlast'.obj.qubit >= 1
            /\ mlast'.obj.value \in {0, 1, None}
       /\ (mlast'.op \in {"new", "qubit"} /\ mlast'.qubit < 1) =>
            /\ mlast'.exc = "ValueError"
            /\ mlast'.made = mlast.made
            /\ mlast'.obj = mlast.obj]_vars

C31_Witness ==
    /\ mlast.op = "qubit"
    /\ mlast.qubit < 1
    /\ mlast.exc = "ValueError"
    /\ mlast.made
    /\ mlast.obj.qubit = MaxQubit

\* ------------------------------------------- launching a plugin: claims

\* C32: at most one run() or start() completes on an instance; after one
\* completed, every run() or start() raises RuntimeError with the message
\* "Plugin has been started before. Make a new instance!" and makes no
\* native call; on an instance made without the base initializer every
\* run() or start() raises RuntimeError and makes no native call.
C32_StartedOnce ==
    [][/\ launch'.done <= 1
       /\ launch.done > 0 =>
            /\ launch'.exc = "RuntimeError"
            /\ launch'.msg = StartedMsg
            /\ launch'.runs = launch.runs
            /\ launch'.starts = launch.starts
       /\ ~launch.init =>
            /\ launch'.exc = "RuntimeError"
            /\ launch'.msg # StartedMsg
            /\ launch'.runs = launch.runs
            /\ launch'.starts = launch.starts]_vars

C32_Witness ==
    /\ launch.done = 1
    /\ launch.op = "start"
    /\ launch.exc = "RuntimeError"
    /\ launch.msg = StartedMsg
    /\ launch.runs + launch.starts = 1

\* ------------------------------------- route callbacks: handles, claims

\* C37 (as claimed): when a route callback has returned or raised, this
\* layer has issued exactly one native delete for every handle argument it
\* received, and none of them is live any more.
C37_ArgumentsReleasedOnce ==
    own.route # "none" =>
        \A k \in 1..Len(own.args) :
            /\ own.reg.dels[own.args[k]] = 1
            /\ own.args[k] \notin own.reg.live

\* C38: the handle a route callback returns is live, this layer issued no
\* native delete for it, and no proxy that still exists refers to it.
C38_ReturnedHandleTaken ==
    own.ret # None =>
        /\ own.ret \in own.reg.live
        /\ own.reg.dels[own.ret] = 0
        /\ own.ret \notin own.reg.held

C38_Witness ==
    /\ own.route = "gate"
    /\ ~own.custom
    /\ own.path = "ok"
    /\ own.ret # None
    /\ own.ret \in own.reg.live

====
